---- MODULE Spec2Model ----
(***************************************************************************)
(* Model of the energy/carbon estimation and the workload allocation of    *)
(* the EAAWAS repository.                                                  *)
(*                                                                         *)
(*   scripts/collect_realtime_data.py  RealTimeDataCollector               *)
(*   src/energy_monitoring.py          EnergyMonitor                       *)
(*   src/workload_allocator.py         WorkloadAllocator                   *)
(*   src/api_integration.py            the three HTTP endpoints            *)
(*                                                                         *)
(* Python floats are modelled as exact rationals <<n, d>> with d > 0 in    *)
(* lowest terms; NaN (numpy's mean of an empty list) is <<0, 0>>.          *)
(* Rounding of the binary representation is not modelled.                  *)
(***************************************************************************)
EXTENDS Integers, Sequences, FiniteSets, TLC

VARIABLES
    \* ---- estimation (collector / monitor) ----
    samples,        \* the last two processed samples, newest last
    tablesLeft,     \* the power and carbon tables as the last estimate calls left them
    \* ---- allocation ----
    describeOk,     \* does ec2.describe_instances succeed
    instances,      \* running instances in describe order; instance i has id i
    request,        \* the workload dict of the last request
    caller,         \* "none", "direct" (allocator called), "api" (HTTP endpoint)
    allocOutcome,   \* "none", "returned", "raised": how allocate_workload ended
    allocResult,    \* the dict allocate_workload returned
    raisedInside,   \* the exception raised inside the try block of allocate_workload
    selections,     \* how many times the request ran the selection
    candidateList,  \* instance_metrics as the selection of the request left it
    http,           \* the HTTP response of the endpoint
    endpoint,       \* the route of the last HTTP request and what its calls met
                    \* (metrics: what EnergyMonitor.get_instance_metrics returned)
    registered,     \* are the gauges of an EnergyMonitor in the Prometheus registry
    \* ---- concurrent estimate calls on one collector ----
    calls,          \* per thread: the estimate call it runs and its position in it
    frames,         \* the local variables of the calls, per frame
    \* ---- collection and monitoring cycles ----
    fleet,          \* the running instances of the cycles, in describe order
    fleetDescribeOk, \* does ec2.describe_instances succeed in the cycles
    cycles,         \* how many collection cycles have run
    engineSamples,  \* the metrics dicts the last cycle passed to the estimation
    workload_data,  \* the workload records of the last collection cycle
    energy_metrics, \* the energy records of the last collection cycle
    csvRows,        \* rows of workload_data.csv and of energy_metrics.csv
    csvHeaders,     \* header rows of the two files (0: the file does not exist)
    cycleLog,       \* per collection cycle: "ok", or "failed" (its except clause ran)
    loopPc,         \* start_collection: "idle", "collect", "sleep", "stopped"
    stopReason,     \* what ended the loop of start_collection
    monitoring_data, \* what the last monitor_instances returned
    gauges,         \* the Prometheus gauges: per instance id the values set
    \* ---- concurrent requests on one shared WorkloadAllocator ----
    allocCalls,     \* per thread: its allocate_workload call, position and locals
    \* ---- the startup script (start.py) ----
    mainPc,         \* position of the main thread of the script
    stepIdx,        \* index in steps of the step run() executes next
    executed,       \* the steps run() has called, in order, each with its outcome
    runOutcome,     \* "none", "True", "False" (returned), "SystemExit",
                    \* "KeyboardInterrupt" (left run)
    workers,        \* per service: position of its start_service call in the pool
    processes,      \* keys of self.processes
    proc,           \* per service: state of its operating-system process
    health,         \* per service: what check_service_health returned
    cleanupTodo,    \* items of self.processes the loop of cleanup has not visited
    terminated,     \* the services whose process was sent terminate()
    \* ---- request tracking (utils/metrics.py) ----
    REQUESTS_TOTAL, \* the counter: per endpoint and status the number of inc() calls
    RESPONSE_TIME,  \* the histogram: per endpoint the number of observations
    tracked         \* the calls of wrapped functions, in call order: endpoint,
                    \* position in the wrapper, how the function ended, what the
                    \* caller received

estVars   == <<samples, tablesLeft>>
allocVars == <<describeOk, instances, request, caller, allocOutcome, allocResult,
               raisedInside, selections, candidateList, http, endpoint, registered>>
concVars  == <<calls, frames>>
cycleVars == <<fleet, fleetDescribeOk, cycles, engineSamples, workload_data,
               energy_metrics, csvRows, csvHeaders, cycleLog, loopPc, stopReason,
               monitoring_data, gauges>>
poolVars  == <<allocCalls>>
startVars == <<mainPc, stepIdx, executed, runOutcome, workers, processes, proc,
               health, cleanupTodo, terminated>>
trackVars == <<REQUESTS_TOTAL, RESPONSE_TIME, tracked>>
vars      == <<estVars, allocVars, concVars, cycleVars, poolVars, startVars, trackVars>>

\* what the actions of one part leave alone
estOthers   == <<allocVars, concVars, cycleVars, poolVars, startVars, trackVars>>
allocOthers == <<estVars, concVars, cycleVars, poolVars, startVars, trackVars>>
concOthers  == <<estVars, allocVars, cycleVars, poolVars, startVars, trackVars>>
cycleOthers == <<estVars, allocVars, concVars, poolVars, startVars, trackVars>>
poolOthers  == <<estVars, allocVars, concVars, cycleVars, startVars, trackVars>>
startOthers == <<estVars, allocVars, concVars, cycleVars, poolVars, trackVars>>
trackOthers == <<estVars, allocVars, concVars, cycleVars, poolVars, startVars>>

----------------------------------------------------------------------------
\* Bounds of the model

\* [0,100] is sampled at 100*k/CpuGrid; one step below 0 and one above 100 are drawn too
CpuGrid == 4
\* at most this many running instances
MaxInstances == 3
\* at most this many datapoints in a metric query's Values
MaxValues == 1
\* at most this many threads run calls concurrently
MaxThreads == 2

\* collection cycles and concurrent requests: at most MaxFleet running instances;
\* at most MaxCycles collection cycles
MaxFleet == 2
MaxCycles == 2
\* at most this many calls of wrapped functions
MaxCalls == 3

----------------------------------------------------------------------------
\* Float arithmetic (exact rationals, NaN = <<0,0>>)

RECURSIVE Gcd(_, _)
Gcd(a, b) == IF b = 0 THEN a ELSE Gcd(b, a % b)

Abs(x) == IF x < 0 THEN -x ELSE x

NaN == <<0, 0>>
IsNaN(x) == x[2] = 0

Norm(n, d) ==
    IF d = 0 THEN NaN
    ELSE LET g == Gcd(Abs(n), Abs(d))
             s == IF d < 0 THEN -1 ELSE 1
         IN  <<(s * n) \div g, (s * d) \div g>>

F(n) == <<n, 1>>
FAdd(x, y) == IF IsNaN(x) \/ IsNaN(y) THEN NaN
              ELSE Norm(x[1] * y[2] + y[1] * x[2], x[2] * y[2])
FSub(x, y) == IF IsNaN(x) \/ IsNaN(y) THEN NaN
              ELSE Norm(x[1] * y[2] - y[1] * x[2], x[2] * y[2])
FMul(x, y) == IF IsNaN(x) \/ IsNaN(y) THEN NaN
              ELSE Norm(x[1] * y[1], x[2] * y[2])
\* division by a non-zero constant (the code only divides by 100 and 1000)
FDiv(x, y) == IF IsNaN(x) \/ IsNaN(y) THEN NaN
              ELSE Norm(x[1] * y[2], x[2] * y[1])
\* comparisons: every comparison with NaN is False
FLt(x, y) == ~IsNaN(x) /\ ~IsNaN(y) /\ x[1] * y[2] < y[1] * x[2]
FLe(x, y) == ~IsNaN(x) /\ ~IsNaN(y) /\ x[1] * y[2] <= y[1] * x[2]

\* numpy.mean of a list of numbers: NaN (with a warning, no exception) when empty
RECURSIVE FSum(_)
FSum(vs) == IF vs = <<>> THEN F(0) ELSE FAdd(vs[1], FSum(Tail(vs)))
Mean(vs) == IF vs = <<>> THEN NaN ELSE FDiv(FSum(vs), F(Len(vs)))

\* dict.get(key, default)
DictGet(d, key, default) == IF key \in DOMAIN d THEN d[key] ELSE default

\* the dict after dict.get(key, default): get never inserts the key
DictAfterGet(d, key, default) == d

----------------------------------------------------------------------------
\* Estimation: RealTimeDataCollector (scripts/collect_realtime_data.py)

instance_base_power ==
    ("t2.micro" :> 2) @@ ("t2.small" :> 4) @@ ("t2.medium" :> 8) @@
    ("t3.micro" :> 2) @@ ("t3.small" :> 4) @@ ("t3.medium" :> 8)

carbon_factors ==
    ("us-east-1" :> 400) @@ ("eu-west-1" :> 200) @@ ("ap-southeast-1" :> 600)

DefaultBasePower == 5
DefaultCarbonFactor == 500

\* the fallback of the power table taken as 0 instead of 5
BasePower_ZeroDefault(instance_type) ==
    F(DictGet(instance_base_power, instance_type, 0))

\* base_power = instance_base_power.get(instance_type, 5)
BasePower(instance_type) ==
    F(DictGet(instance_base_power, instance_type, DefaultBasePower))

\* max_power = base_power * 2.5
MaxPower(instance_type) == FMul(BasePower(instance_type), <<5, 2>>)

\* the linear term taken with the operands of the difference swapped
estimate_energy_consumption_Swapped(cpu_utilization, instance_type) ==
    LET base_power == BasePower(instance_type)
        max_power  == MaxPower(instance_type)
    IN  FAdd(base_power,
             FMul(FSub(base_power, max_power), FDiv(cpu_utilization, F(100))))

\* the utilization taken as a fraction of 10 instead of a percentage
estimate_energy_consumption_Tenth(cpu_utilization, instance_type) ==
    LET base_power == BasePower(instance_type)
        max_power  == MaxPower(instance_type)
    IN  FAdd(base_power,
             FMul(FSub(max_power, base_power), FDiv(cpu_utilization, F(10))))

\* max_power taken as twice the base power
estimate_energy_consumption_Double(cpu_utilization, instance_type) ==
    LET base_power == BasePower(instance_type)
        max_power  == FMul(base_power, F(2))
    IN  FAdd(base_power,
             FMul(FSub(max_power, base_power), FDiv(cpu_utilization, F(100))))

\* the utilization clamped to [0,100] before the linear model is applied
estimate_energy_consumption_Clamped(cpu_utilization, instance_type) ==
    LET base_power == BasePower(instance_type)
        max_power  == MaxPower(instance_type)
        clamped    == IF FLt(cpu_utilization, F(0)) THEN F(0)
                      ELSE IF FLt(F(100), cpu_utilization) THEN F(100)
                      ELSE cpu_utilization
    IN  FAdd(base_power,
             FMul(FSub(max_power, base_power), FDiv(clamped, F(100))))

\* power_consumption = base_power + (max_power - base_power) * (cpu_utilization / 100)
estimate_energy_consumption(cpu_utilization, instance_type) ==
    LET base_power == BasePower(instance_type)
        max_power  == MaxPower(instance_type)
    IN  FAdd(base_power,
             FMul(FSub(max_power, base_power), FDiv(cpu_utilization, F(100))))

\* the fallback of the carbon table taken as the first entry instead of 500
CarbonFactor_FirstEntry(region) == F(DictGet(carbon_factors, region, 400))

\* factor = carbon_factors.get(region, 500)
CarbonFactor(region) == F(DictGet(carbon_factors, region, DefaultCarbonFactor))

\* the factor added to the energy in kWh instead of multiplied with it
estimate_carbon_footprint_Added(energy_consumption, region) ==
    FAdd(FDiv(energy_consumption, F(1000)), CarbonFactor(region))

\* return (energy_consumption / 1000) * factor
estimate_carbon_footprint(energy_consumption, region) ==
    FMul(FDiv(energy_consumption, F(1000)), CarbonFactor(region))

----------------------------------------------------------------------------
\* Estimation: EnergyMonitor (src/energy_monitoring.py)

monitor_carbon_factors ==
    ("us-east-1" :> 400) @@ ("eu-west-1" :> 200) @@ ("ap-southeast-1" :> 600)

\* avg_cpu = mean of the datapoints; 0 when there is no datapoint
calculate_energy_consumption(datapoints) ==
    IF datapoints # <<>>
    THEN LET avg_cpu == Mean(datapoints)
         IN  FAdd(F(100), FMul(FSub(F(200), F(100)), FDiv(avg_cpu, F(100))))
    ELSE F(0)

\* the monitor falling back to a factor of its own (450) for a region outside the table
MonitorCarbonFactor_OwnDefault(region) ==
    F(DictGet(monitor_carbon_factors, region, 450))

MonitorCarbonFactor(region) == F(DictGet(monitor_carbon_factors, region, 500))

\* return (energy_consumption / 1000) * factor; no statement of the try block can raise
\* on numeric input, so the except branch (return 0) is never taken
monitor_estimate_carbon_footprint(energy_consumption, region) ==
    FMul(FDiv(energy_consumption, F(1000)), MonitorCarbonFactor(region))

----------------------------------------------------------------------------
\* Inputs of the estimation

\* CPU utilization values: the grid over [0,100] and one step outside on each side
CpuValues == { Norm(100 * k, CpuGrid) : k \in -1 .. (CpuGrid + 1) }
CpuInRange == { c \in CpuValues : FLe(F(0), c) /\ FLe(c, F(100)) }

\* instance types: known keys of the power table and one that is not a key
InstanceTypes == {"t2.micro", "t2.small", "t3.medium", "m5.large"}
\* regions: the keys of the carbon table and one that is not a key
Regions == {"us-east-1", "eu-west-1", "ap-southeast-1", "sa-east-1"}

\* the datapoint lists the monitor averages (no datapoint, or one in-range datapoint)
MonitorDatapoints == {<<>>} \cup { <<c>> : c \in CpuInRange }

\* the last two samples are kept
Push(s, r) == IF Len(s) < 2 THEN Append(s, r) ELSE <<s[2], r>>

\* collect_and_save_data, the body of the loop for one instance whose metrics were
\* retrieved: the energy record appended to energy_metrics
CollectorRecord(cpu, instance_type, region) ==
    LET energy_consumption == estimate_energy_consumption(cpu, instance_type)
        carbon_footprint   == estimate_carbon_footprint(energy_consumption, region)
    IN  [src |-> "collector",
         instance_type |-> instance_type,
         region |-> region,
         energy_consumption |-> energy_consumption,
         carbon_footprint |-> carbon_footprint,
         cpu_utilization |-> cpu]

\* monitor_instances, the body of the loop for one instance whose metrics were
\* retrieved: the entry appended to monitoring_data
MonitorRecord(datapoints, region) ==
    LET energy_consumption == calculate_energy_consumption(datapoints)
        carbon_footprint   == monitor_estimate_carbon_footprint(energy_consumption, region)
    IN  [src |-> "monitor",
         region |-> region,
         energy_consumption |-> energy_consumption,
         carbon_footprint |-> carbon_footprint,
         datapoints |-> datapoints]

CollectSample(cpu, instance_type, region) ==
    /\ samples' = Push(samples, CollectorRecord(cpu, instance_type, region))
    /\ tablesLeft' =
           [tablesLeft EXCEPT
               !.power = DictAfterGet(instance_base_power, instance_type, DefaultBasePower),
               !.carbon = DictAfterGet(carbon_factors, region, DefaultCarbonFactor)]
    /\ UNCHANGED estOthers

MonitorSample(datapoints, region) ==
    /\ samples' = Push(samples, MonitorRecord(datapoints, region))
    /\ tablesLeft' =
           [tablesLeft EXCEPT
               !.monitor_carbon = DictAfterGet(monitor_carbon_factors, region, 500)]
    /\ UNCHANGED estOthers


----------------------------------------------------------------------------
\* Allocation: WorkloadAllocator (src/workload_allocator.py)

\* the hourly CPUUtilization averages a metric query can return
MetricValues == {F(10), F(20)}

RECURSIVE SeqsUpTo(_, _)
SeqsUpTo(S, n) ==
    IF n = 0 THEN {<<>>}
    ELSE LET shorter == SeqsUpTo(S, n - 1)
         IN  shorter \cup { Append(q, x) : q \in shorter, x \in S }

\* the outcome of cloudwatch.get_metric_data for one instance: an exception
\* (ok = FALSE), or the Values of the first result (possibly empty)
MetricOutcomes ==
    {[ok |-> FALSE, values |-> <<>>]}
        \cup { [ok |-> TRUE, values |-> v] : v \in SeqsUpTo(MetricValues, MaxValues) }

\* the workload dicts of the requests (Optional[float] is <<>> or <<value>>)
Workloads ==
    [cpu_request : {2}, memory_request : {"4Gi"}, priority : {"high", "low"},
     max_energy_consumption : {<<>>, <<F(12)>>}]

\* get_instance_energy_metrics returning a default dict instead of None on failure
get_instance_energy_metrics_Default(instance_id, outcome) ==
    <<[instance_id |-> instance_id,
       energy_consumption |-> IF outcome.ok THEN Mean(outcome.values) ELSE F(0)]>>

\* get_instance_energy_metrics: None (here <<>>) when the query raised, else
\* <<the metrics dict>> with the mean of the returned values
get_instance_energy_metrics(instance_id, outcome) ==
    IF outcome.ok
    THEN <<[instance_id |-> instance_id, energy_consumption |-> Mean(outcome.values)]>>
    ELSE <<>>

\* the loop over reservations and instances: instance_metrics, in describe order;
\* `if metrics:` drops None and keeps every dict
RECURSIVE InstanceMetricsFrom(_, _)
InstanceMetricsFrom(insts, i) ==
    IF i > Len(insts) THEN <<>>
    ELSE get_instance_energy_metrics(i, insts[i]) \o InstanceMetricsFrom(insts, i + 1)

InstanceMetrics(insts) == InstanceMetricsFrom(insts, 1)

\* min(instance_metrics, key=lambda x: x['energy_consumption']): the index of the
\* element min returns. The builtin keeps the first element and replaces it by a
\* later one only when key(later) < key(kept).
RECURSIVE MinScan(_, _, _)
MinScan(ms, i, best) ==
    IF i > Len(ms) THEN best
    ELSE MinScan(ms, i + 1,
                 IF FLt(ms[i].energy_consumption, ms[best].energy_consumption)
                 THEN i ELSE best)

MinIndex(ms) == MinScan(ms, 2, 1)

\* the list after the best element was taken out of it with pop()
ListAfterMin_Popped(ms) ==
    LET k == MinScan(ms, 2, 1)
    IN  SubSeq(ms, 1, k - 1) \o SubSeq(ms, k + 1, Len(ms))

\* the list after min(instance_metrics, key=...): min only reads its argument
ListAfterMin(ms) == ms

NoSuitableMsg == "No suitable instances found for workload allocation"
DescribeFailedMsg == "describe_instances failed"

\* allocate_workload without its except clause: the exception leaves the call
AllocateWorkloadCall_NoExcept(workload, dOk, insts) ==
    IF ~dOk
    THEN [outcome |-> "raised", result |-> [status |-> "none"],
          raisedInside |-> "ClientError", selections |-> 0, instance_metrics |-> <<>>]
    ELSE LET instance_metrics == InstanceMetricsFrom(insts, 1)
         IN  IF instance_metrics # <<>>
             THEN LET best_instance == instance_metrics[MinScan(instance_metrics, 2, 1)]
                  IN  [outcome |-> "returned",
                       result |-> [status |-> "success",
                                   allocated_instance |-> best_instance.instance_id,
                                   energy_consumption |-> best_instance.energy_consumption],
                       raisedInside |-> "none", selections |-> 1,
                       instance_metrics |-> instance_metrics]
             ELSE [outcome |-> "raised", result |-> [status |-> "none"],
                   raisedInside |-> "NoSuitableInstances", selections |-> 1,
                   instance_metrics |-> instance_metrics]

\* allocate_workload honouring max_energy_consumption of the request
AllocateWorkloadCall_Bounded(workload, dOk, insts) ==
    IF ~dOk
    THEN [outcome |-> "returned",
          result |-> [status |-> "error", message |-> DescribeFailedMsg],
          raisedInside |-> "ClientError", selections |-> 0, instance_metrics |-> <<>>]
    ELSE LET instance_metrics ==
                 SelectSeq(InstanceMetricsFrom(insts, 1),
                           LAMBDA m : \/ workload.max_energy_consumption = <<>>
                                      \/ FLe(m.energy_consumption,
                                             workload.max_energy_consumption[1]))
         IN  IF instance_metrics # <<>>
             THEN LET best_instance == instance_metrics[MinScan(instance_metrics, 2, 1)]
                  IN  [outcome |-> "returned",
                       result |-> [status |-> "success",
                                   allocated_instance |-> best_instance.instance_id,
                                   energy_consumption |-> best_instance.energy_consumption],
                       raisedInside |-> "none", selections |-> 1,
                       instance_metrics |-> instance_metrics]
             ELSE [outcome |-> "returned",
                   result |-> [status |-> "error", message |-> NoSuitableMsg],
                   raisedInside |-> "NoSuitableInstances", selections |-> 1,
                   instance_metrics |-> instance_metrics]

\* allocate_workload(workload): how the call ends ("returned", or "raised" when an
\* exception leaves it), the dict it returns, the exception raised inside its try
\* block, and how many times it ran the selection.  `except Exception` turns every
\* exception of the try block into a returned error dict.
AllocateWorkloadCall(workload, dOk, insts) ==
    IF ~dOk
    THEN [outcome |-> "returned",
          result |-> [status |-> "error", message |-> DescribeFailedMsg],
          raisedInside |-> "ClientError", selections |-> 0, instance_metrics |-> <<>>]
    ELSE LET instance_metrics == InstanceMetrics(insts)
         IN  IF instance_metrics # <<>>
             THEN LET best_instance == instance_metrics[MinIndex(instance_metrics)]
                  IN  [outcome |-> "returned",
                       result |-> [status |-> "success",
                                   allocated_instance |-> best_instance.instance_id,
                                   energy_consumption |-> best_instance.energy_consumption],
                       raisedInside |-> "none", selections |-> 1,
                       instance_metrics |-> ListAfterMin(instance_metrics)]
             ELSE [outcome |-> "returned",
                   result |-> [status |-> "error", message |-> NoSuitableMsg],
                   raisedInside |-> "NoSuitableInstances", selections |-> 1,
                   instance_metrics |-> instance_metrics]

NoResult == [status |-> "none"]
NoHttp == [code |-> 0]
NoEndpoint == [route |-> "none", ctorOk |-> TRUE, retrieved |-> TRUE, metrics |-> <<>>]

\* a caller (a test, __main__) calls allocator.allocate_workload(workload)
DirectAllocate(workload) ==
    LET r == AllocateWorkloadCall(workload, describeOk, instances)
    IN  /\ request' = workload
        /\ caller' = "direct"
        /\ allocOutcome' = r.outcome
        /\ allocResult' = r.result
        /\ raisedInside' = r.raisedInside
        /\ selections' = r.selections
        /\ candidateList' = r.instance_metrics
        /\ http' = NoHttp
        /\ endpoint' = NoEndpoint
        /\ UNCHANGED registered
        /\ UNCHANGED <<describeOk, instances>>
        /\ UNCHANGED allocOthers

\* POST /workload/allocate: WorkloadAllocator() is constructed (it raises when the
\* config file or the AWS clients are missing), allocate_workload is called and its
\* result is the response; any exception becomes a 500
ApiAllocate(workload, ctorOk) ==
    /\ request' = workload
    /\ caller' = "api"
    /\ endpoint' = [route |-> "/workload/allocate", ctorOk |-> ctorOk, retrieved |-> TRUE,
                    metrics |-> <<>>]
    /\ UNCHANGED registered
    /\ IF ctorOk
       THEN LET r == AllocateWorkloadCall(workload, describeOk, instances)
            IN  /\ allocOutcome' = r.outcome
                /\ allocResult' = r.result
                /\ raisedInside' = r.raisedInside
                /\ selections' = r.selections
                /\ candidateList' = r.instance_metrics
                /\ http' = IF r.outcome = "returned"
                           THEN [code |-> 200, body |-> r.result]
                           ELSE [code |-> 500, detail |-> r.raisedInside]
       ELSE /\ allocOutcome' = "none"
            /\ allocResult' = NoResult
            /\ raisedInside' = "none"
            /\ selections' = 0
            /\ candidateList' = <<>>
            /\ http' = [code |-> 500, detail |-> "constructor failed"]
    /\ UNCHANGED <<describeOk, instances>>
    /\ UNCHANGED allocOthers

----------------------------------------------------------------------------
\* Concurrent estimate calls: threads calling estimate_energy_consumption and
\* estimate_carbon_footprint of one RealTimeDataCollector.  Each call builds its
\* table and keeps base_power, max_power and factor in local variables.

Threads == 1 .. MaxThreads

\* the calls the threads make
ConcEnergyArgs == { <<cpu, t>> : cpu \in {F(50), F(100)},
                                 t \in {"t2.micro", "t3.medium", "m5.large"} }
ConcCarbonArgs == { <<e, r>> : e \in {F(14)}, r \in {"us-east-1", "sa-east-1"} }

\* a local variable that is not bound yet
Unbound == NaN
EmptyFrame == [base_power |-> Unbound, max_power |-> Unbound, factor |-> Unbound]
IdleCall == [pc |-> "idle", fn |-> "none", x |-> F(0), key |-> "", result |-> Unbound,
             overlapped |-> FALSE]

\* the locals kept on the collector object, shared by all threads
FrameOf_Shared(t) == 1

\* the frame holding the locals of thread t's call: every call has its own
FrameOf(t) == t

\* a step of thread t overlaps every call in progress on another thread
Overlap(t, cs) ==
    [u \in Threads |->
        IF u # t /\ cs[u].pc \notin {"idle", "done"}
        THEN [cs[u] EXCEPT !.overlapped = TRUE] ELSE cs[u]]

\* thread t enters estimate_energy_consumption(x, key) or estimate_carbon_footprint(x, key)
ConcCall(t, fn, x, key) ==
    /\ calls[t].pc \in {"idle", "done"}
    /\ calls' = Overlap(t, [calls EXCEPT ![t] =
                   [pc |-> "lookup", fn |-> fn, x |-> x, key |-> key,
                    result |-> Unbound, overlapped |-> FALSE]])
    /\ frames' = [frames EXCEPT ![FrameOf(t)] = EmptyFrame]
    /\ UNCHANGED concOthers

\* base_power = instance_base_power.get(instance_type, 5), or
\* factor = carbon_factors.get(region, 500)
ConcLookup(t) ==
    /\ calls[t].pc = "lookup"
    /\ IF calls[t].fn = "energy"
       THEN /\ frames' = [frames EXCEPT ![FrameOf(t)].base_power = BasePower(calls[t].key)]
            /\ calls' = Overlap(t, [calls EXCEPT ![t].pc = "max"])
       ELSE /\ frames' = [frames EXCEPT ![FrameOf(t)].factor = CarbonFactor(calls[t].key)]
            /\ calls' = Overlap(t, [calls EXCEPT ![t].pc = "compute"])
    /\ UNCHANGED concOthers

\* max_power = base_power * 2.5
ConcMax(t) ==
    /\ calls[t].pc = "max"
    /\ frames' = [frames EXCEPT ![FrameOf(t)].max_power =
                      FMul(frames[FrameOf(t)].base_power, <<5, 2>>)]
    /\ calls' = Overlap(t, [calls EXCEPT ![t].pc = "compute"])
    /\ UNCHANGED concOthers

\* the return statement of the call
ConcReturn(t) ==
    /\ calls[t].pc = "compute"
    /\ LET f == frames[FrameOf(t)]
           r == IF calls[t].fn = "energy"
                THEN FAdd(f.base_power,
                          FMul(FSub(f.max_power, f.base_power),
                               FDiv(calls[t].x, F(100))))
                ELSE FMul(FDiv(calls[t].x, F(1000)), f.factor)
       IN  calls' = Overlap(t, [calls EXCEPT ![t].pc = "done", ![t].result = r])
    /\ UNCHANGED <<frames>>
    /\ UNCHANGED concOthers

----------------------------------------------------------------------------
\* Collection cycle: RealTimeDataCollector.collect_and_save_data and
\* EnergyMonitor.monitor_instances over the running instances

\* the six metrics the collector queries, and the five the monitor queries
MetricNames == {"CPUUtilization", "MemoryUtilization", "NetworkIn", "NetworkOut",
                "DiskReadBytes", "DiskWriteBytes"}
MonitorMetricNames == MetricNames \ {"MemoryUtilization"}

\* instance['Placement']['AvailabilityZone'][:-1]: the zone without its last letter
ZoneRegion(az) ==
    CASE az = "us-east-1a" -> "us-east-1"
      [] az = "eu-west-1c" -> "eu-west-1"
      [] az = "sa-east-1b" -> "sa-east-1"

\* the Datapoints of the CPUUtilization query: none, one, or two averages
CycleCpuDatapoints == {<<>>, <<F(50)>>, <<F(100), F(50)>>}

\* the Datapoints of the six queries of one instance; the metrics in missing have none
DatapointsOf(cpu, missing) ==
    [m \in MetricNames |->
        IF m = "CPUUtilization" THEN cpu
        ELSE IF m \in missing THEN <<>> ELSE <<F(40)>>]

\* the outcome of the metric queries of one instance: an exception in a query
\* (ok = FALSE), or the Datapoints of each query
CycleRetrievals ==
    {[ok |-> FALSE, datapoints |-> DatapointsOf(<<>>, MetricNames)]}
    \cup { [ok |-> TRUE, datapoints |-> DatapointsOf(cpu, missing)] :
              cpu \in CycleCpuDatapoints,
              missing \in {{}, {"MemoryUtilization"},
                           MetricNames \ {"CPUUtilization"}} }

\* an instance of describe_instances with the outcome of its metric queries
FleetInstances ==
    { [instance_type |-> p[1], zone |-> p[2], retrieval |-> r] :
         p \in {<<"t3.medium", "us-east-1a">>, <<"m5.large", "sa-east-1b">>,
                <<"t2.micro", "eu-west-1c">>},
         r \in CycleRetrievals }

\* a metric of the collector with a wrong value when the window holds no datapoint
MetricValue_Missing(datapoints) ==
    IF datapoints # <<>> THEN datapoints[1] ELSE F(-1)

\* response['Datapoints'][0]['Average'] if there is a datapoint, else 0
MetricValue(datapoints) ==
    IF datapoints # <<>> THEN datapoints[1] ELSE F(0)

\* RealTimeDataCollector.get_instance_metrics: None (<<>>) when a query raised,
\* else the dict of the six metrics
get_instance_metrics(retrieval) ==
    IF ~retrieval.ok THEN <<>>
    ELSE <<[m \in MetricNames |-> MetricValue(retrieval.datapoints[m])]>>

\* int(x) of a float: truncation toward zero
PyInt(x) == IF x[1] >= 0 THEN x[1] \div x[2] ELSE -((-x[1]) \div x[2])
PyMax(a, b) == IF b > a THEN b ELSE a

\* the record appended to workload_data for one instance
WorkloadRecord(metrics, end_time) ==
    [timestamp |-> end_time,
     cpu_utilization |-> metrics["CPUUtilization"],
     memory_usage |-> DictGet(metrics, "MemoryUtilization", F(0)),
     network_in |-> metrics["NetworkIn"],
     network_out |-> metrics["NetworkOut"],
     workload_demand |-> PyMax(1, PyInt(FDiv(metrics["CPUUtilization"], F(20))))]

\* an energy record whose carbon footprint is computed from the utilization
EnergyRecord_CarbonOfCpu(instance_id, instance_type, region, metrics, end_time) ==
    LET energy_consumption ==
            estimate_energy_consumption(metrics["CPUUtilization"], instance_type)
        carbon_footprint ==
            estimate_carbon_footprint(metrics["CPUUtilization"], region)
    IN  [timestamp |-> end_time,
         instance_id |-> instance_id,
         instance_type |-> instance_type,
         region |-> region,
         energy_consumption |-> energy_consumption,
         carbon_footprint |-> carbon_footprint,
         cpu_utilization |-> metrics["CPUUtilization"],
         memory_usage |-> DictGet(metrics, "MemoryUtilization", F(0))]

\* the record appended to energy_metrics for one instance
EnergyRecord(instance_id, instance_type, region, metrics, end_time) ==
    LET energy_consumption ==
            estimate_energy_consumption(metrics["CPUUtilization"], instance_type)
        carbon_footprint ==
            estimate_carbon_footprint(energy_consumption, region)
    IN  [timestamp |-> end_time,
         instance_id |-> instance_id,
         instance_type |-> instance_type,
         region |-> region,
         energy_consumption |-> energy_consumption,
         carbon_footprint |-> carbon_footprint,
         cpu_utilization |-> metrics["CPUUtilization"],
         memory_usage |-> DictGet(metrics, "MemoryUtilization", F(0))]

NoRecords == [engine |-> <<>>, workload |-> <<>>, energy |-> <<>>]

\* a loop over the instances that stops at the first one whose metrics are None
RECURSIVE CollectLoop_Break(_, _, _)
CollectLoop_Break(fl, i, end_time) ==
    IF i > Len(fl) THEN NoRecords
    ELSE LET metrics == get_instance_metrics(fl[i].retrieval)
         IN  IF metrics # <<>>
             THEN LET rest == CollectLoop_Break(fl, i + 1, end_time)
                      region == ZoneRegion(fl[i].zone)
                  IN  [engine |-> <<[instance_id |-> i, metrics |-> metrics[1]]>>
                                      \o rest.engine,
                       workload |-> <<WorkloadRecord(metrics[1], end_time)>>
                                      \o rest.workload,
                       energy |-> <<EnergyRecord(i, fl[i].instance_type, region,
                                                 metrics[1], end_time)>>
                                      \o rest.energy]
             ELSE NoRecords

\* the loop of collect_and_save_data from instance i on: the lists it builds.
\* "if metrics:" skips an instance whose metrics are None; the dict of a retrieved
\* instance has six keys and is never falsy
RECURSIVE CollectLoop(_, _, _)
CollectLoop(fl, i, end_time) ==
    IF i > Len(fl) THEN NoRecords
    ELSE LET metrics == get_instance_metrics(fl[i].retrieval)
             rest == CollectLoop(fl, i + 1, end_time)
         IN  IF metrics # <<>>
             THEN LET region == ZoneRegion(fl[i].zone)
                  IN  [engine |-> <<[instance_id |-> i, metrics |-> metrics[1]]>>
                                      \o rest.engine,
                       workload |-> <<WorkloadRecord(metrics[1], end_time)>>
                                      \o rest.workload,
                       energy |-> <<EnergyRecord(i, fl[i].instance_type, region,
                                                 metrics[1], end_time)>>
                                      \o rest.energy]
             ELSE rest

\* the outcomes of a DataFrame.to_csv call
SaveOutcomes == {"ok", "raise"}

\* the lists the loop of a cycle builds; none when describe_instances raised
CycleRecords ==
    IF fleetDescribeOk THEN CollectLoop(fleet, 1, cycles + 1) ELSE NoRecords

\* `if workload_data:` workload_df.to_csv(...) raised
WorkloadSaveRaised(saveW) == CycleRecords.workload # <<>> /\ saveW = "raise"
\* `if energy_metrics:` energy_df.to_csv(...) was reached and raised
EnergySaveRaised(saveW, saveE) ==
    /\ ~WorkloadSaveRaised(saveW)
    /\ CycleRecords.energy # <<>>
    /\ saveE = "raise"

\* an exception was raised in the try block of the cycle
CycleFails(saveW, saveE) ==
    \/ ~fleetDescribeOk
    \/ WorkloadSaveRaised(saveW)
    \/ EnergySaveRaised(saveW, saveE)

\* collect_and_save_data: what one cycle does.  The lists are built; then the
\* workload rows are appended to workload_data.csv and after that the energy rows
\* to energy_metrics.csv, each with a header row when the file does not exist yet
\* (header=not os.path.exists).  A to_csv call that raises leaves its file as it
\* was; an exception skips the rest of the try block.  The cycle number stands
\* for end_time.
CycleEffect(saveW, saveE) ==
    /\ cycles < MaxCycles
    /\ cycles' = cycles + 1
    /\ LET r == CycleRecords
           wWritten == r.workload # <<>> /\ saveW = "ok"
           eWritten == /\ ~WorkloadSaveRaised(saveW)
                       /\ r.energy # <<>>
                       /\ saveE = "ok"
       IN  /\ engineSamples' = r.engine
           /\ workload_data' = r.workload
           /\ energy_metrics' = r.energy
           /\ csvRows' = [workload |-> csvRows.workload
                                          + (IF wWritten THEN Len(r.workload) ELSE 0),
                          energy |-> csvRows.energy
                                          + (IF eWritten THEN Len(r.energy) ELSE 0)]
           /\ csvHeaders' =
                 [workload |-> IF wWritten /\ csvHeaders.workload = 0
                               THEN 1 ELSE csvHeaders.workload,
                  energy |-> IF eWritten /\ csvHeaders.energy = 0
                             THEN 1 ELSE csvHeaders.energy]
    /\ cycleLog' = Append(cycleLog, IF CycleFails(saveW, saveE) THEN "failed" ELSE "ok")

\* collect_and_save_data called once (not from the loop of start_collection)
CollectAndSaveData(saveW, saveE) ==
    /\ CycleEffect(saveW, saveE)
    /\ UNCHANGED <<fleet, fleetDescribeOk, monitoring_data, gauges, loopPc, stopReason>>
    /\ UNCHANGED cycleOthers

\* a cycle whose exception leaves collect_and_save_data
CycleExcept_Reraise == "raised"

\* except Exception as e: logger.error(...) -- the exception ends in the cycle
CycleExcept == "logged"

\* start_collection is called
StartCollection ==
    /\ loopPc = "idle"
    /\ loopPc' = "collect"
    /\ UNCHANGED <<fleet, fleetDescribeOk, cycles, engineSamples, workload_data,
                   energy_metrics, csvRows, csvHeaders, cycleLog, stopReason,
                   monitoring_data, gauges>>
    /\ UNCHANGED cycleOthers

\* start_collection: self.collect_and_save_data(interval_minutes) in the loop
LoopCollect(saveW, saveE) ==
    /\ loopPc = "collect"
    /\ CycleEffect(saveW, saveE)
    /\ IF CycleFails(saveW, saveE) /\ CycleExcept = "raised"
       THEN loopPc' = "stopped" /\ stopReason' = "exception of a cycle"
       ELSE loopPc' = "sleep" /\ UNCHANGED stopReason
    /\ UNCHANGED <<fleet, fleetDescribeOk, monitoring_data, gauges>>
    /\ UNCHANGED cycleOthers

\* start_collection: time.sleep(interval_minutes * 60); it raises ValueError for a
\* negative interval, which the except clause of start_collection logs
LoopSleep(ok) ==
    /\ loopPc = "sleep"
    /\ IF ok
       THEN loopPc' = "collect" /\ UNCHANGED stopReason
       ELSE loopPc' = "stopped" /\ stopReason' = "exception outside the cycle"
    /\ UNCHANGED <<fleet, fleetDescribeOk, cycles, engineSamples, workload_data,
                   energy_metrics, csvRows, csvHeaders, cycleLog,
                   monitoring_data, gauges>>
    /\ UNCHANGED cycleOthers

\* Ctrl+C while the loop runs: except KeyboardInterrupt of start_collection
LoopInterrupt ==
    /\ loopPc \in {"collect", "sleep"}
    /\ loopPc' = "stopped"
    /\ stopReason' = "KeyboardInterrupt"
    /\ UNCHANGED <<fleet, fleetDescribeOk, cycles, engineSamples, workload_data,
                   energy_metrics, csvRows, csvHeaders, cycleLog,
                   monitoring_data, gauges>>
    /\ UNCHANGED cycleOthers

\* describe_instances starts or stops failing between two cycles
CloudChanges ==
    /\ fleetDescribeOk' = ~fleetDescribeOk
    /\ UNCHANGED <<fleet, cycles, engineSamples, workload_data, energy_metrics,
                   csvRows, csvHeaders, cycleLog, loopPc, stopReason,
                   monitoring_data, gauges>>
    /\ UNCHANGED cycleOthers

\* EnergyMonitor.get_instance_metrics: None (<<>>) when a query raised, else the
\* dict of the five lists of datapoint values
monitor_get_instance_metrics(retrieval) ==
    IF ~retrieval.ok THEN <<>>
    ELSE <<[m \in MonitorMetricNames |-> retrieval.datapoints[m]]>>

\* the loop of monitor_instances from instance i on: the entries of monitoring_data
RECURSIVE MonitorLoop(_, _)
MonitorLoop(fl, i) ==
    IF i > Len(fl) THEN <<>>
    ELSE LET metrics == monitor_get_instance_metrics(fl[i].retrieval)
             rest == MonitorLoop(fl, i + 1)
         IN  IF metrics # <<>>
             THEN LET region == ZoneRegion(fl[i].zone)
                      energy_consumption ==
                          calculate_energy_consumption(metrics[1]["CPUUtilization"])
                      carbon_footprint ==
                          monitor_estimate_carbon_footprint(energy_consumption, region)
                  IN  <<[instance_id |-> i,
                         instance_type |-> fl[i].instance_type,
                         region |-> region,
                         energy_consumption |-> energy_consumption,
                         carbon_footprint |-> carbon_footprint,
                         metrics |-> metrics[1]]>> \o rest
             ELSE rest

\* monitor_instances: [] when describe_instances fails; the two gauges of every
\* retrieved instance are set to its energy and carbon values
MonitorInstances ==
    /\ monitoring_data' = IF fleetDescribeOk THEN MonitorLoop(fleet, 1) ELSE <<>>
    /\ gauges' = [i \in { monitoring_data'[k].instance_id :
                             k \in 1 .. Len(monitoring_data') } \cup DOMAIN gauges |->
                    IF \E k \in 1 .. Len(monitoring_data') :
                          monitoring_data'[k].instance_id = i
                    THEN LET k == CHOOSE k \in 1 .. Len(monitoring_data') :
                                     monitoring_data'[k].instance_id = i
                         IN  [energy_consumption |-> monitoring_data'[k].energy_consumption,
                              carbon_footprint |-> monitoring_data'[k].carbon_footprint]
                    ELSE gauges[i]]
    /\ UNCHANGED <<fleet, fleetDescribeOk, cycles, engineSamples, workload_data,
                   energy_metrics, csvRows, csvHeaders, cycleLog, loopPc, stopReason>>
    /\ UNCHANGED cycleOthers

----------------------------------------------------------------------------
\* The GET endpoints of the API (src/api_integration.py)

\* what the two GET endpoints leave alone
getOthers == <<describeOk, instances, request, caller, allocOutcome, allocResult,
               raisedInside, selections, candidateList>>

\* an exception raised inside the try block of an endpoint, the HTTPException of
\* the handler itself included, is caught by `except Exception` and answered with
\* HTTPException(status_code=500, detail=str(e))
EndpointExcept(raised) == [code |-> 500, detail |-> raised]

\* GET /metrics/energy/{instance_id}: EnergyMonitor() is constructed (it raises when
\* the config file or the AWS clients are missing, and when the gauges of an earlier
\* EnergyMonitor are already in the registry of the process); get_instance_metrics
\* returns None when a query raised.  The metrics dict holds the five metric lists,
\* so both .get calls of the response fall back to 0.
ApiEnergy(instance_id, retrieval, ctorOk) ==
    /\ endpoint' = [route |-> "/metrics/energy", ctorOk |-> ctorOk,
                    retrieved |-> retrieval.ok,
                    metrics |-> IF ctorOk /\ ~registered
                                THEN monitor_get_instance_metrics(retrieval)
                                ELSE <<>>]
    /\ IF ~ctorOk
       THEN /\ http' = EndpointExcept("constructor failed")
            /\ UNCHANGED registered
       ELSE IF registered
       THEN /\ http' = EndpointExcept("Duplicated timeseries in CollectorRegistry")
            /\ UNCHANGED registered
       ELSE /\ registered' = TRUE
            /\ LET metrics == monitor_get_instance_metrics(retrieval)
               IN  IF metrics = <<>>
                   THEN http' = EndpointExcept("404: Instance not found")
                   ELSE http' = [code |-> 200,
                                 body |-> [instance_id |-> instance_id,
                                           energy_consumption |->
                                               DictGet(metrics[1], "energy_consumption", F(0)),
                                           carbon_footprint |->
                                               DictGet(metrics[1], "carbon_footprint", F(0))]]
    /\ UNCHANGED getOthers
    /\ UNCHANGED allocOthers

\* APIIntegration.get_sustainability_metrics: the entry of the region, a default
\* entry for a region outside the table; never the empty dict
get_sustainability_metrics(region) ==
    LET sustainability_data ==
            [r \in {"us-east-1", "eu-west-1", "ap-southeast-1"} |->
                CASE r = "us-east-1" ->
                        [renewable_percentage |-> 35, carbon_intensity |-> 400]
                  [] r = "eu-west-1" ->
                        [renewable_percentage |-> 60, carbon_intensity |-> 200]
                  [] r = "ap-southeast-1" ->
                        [renewable_percentage |-> 25, carbon_intensity |-> 600]]
    IN  DictGet(sustainability_data, region,
                [renewable_percentage |-> 30, carbon_intensity |-> 500])

\* GET /metrics/sustainability/{region}: APIIntegration() is constructed (it raises
\* when the config file or the AWS clients are missing); `if not metrics` holds for
\* no result of get_sustainability_metrics
ApiSustainability(region, ctorOk) ==
    /\ endpoint' = [route |-> "/metrics/sustainability", ctorOk |-> ctorOk,
                    retrieved |-> TRUE, metrics |-> <<>>]
    /\ http' = IF ctorOk
               THEN [code |-> 200, body |-> get_sustainability_metrics(region)]
               ELSE EndpointExcept("constructor failed")
    /\ UNCHANGED registered
    /\ UNCHANGED getOthers
    /\ UNCHANGED allocOthers

----------------------------------------------------------------------------
\* Concurrent requests: threads of a pool calling allocate_workload on one shared
\* WorkloadAllocator.  The call keeps instances, instance_metrics and best_instance
\* in local variables; the allocator's attributes are only read.

IdleAllocCall == [pc |-> "idle", i |-> 0, instance_metrics |-> <<>>,
                  outcome |-> "none", result |-> NoResult]

\* an exception of the try block leaving the call
ExceptClause_Reraise(message) ==
    [outcome |-> "raised", result |-> NoResult]

\* except Exception as e: return {'status': 'error', 'message': str(e)}
ExceptClause(message) ==
    [outcome |-> "returned", result |-> [status |-> "error", message |-> message]]

\* thread t calls allocator.allocate_workload(workload)
PoolCall(t) ==
    /\ allocCalls[t].pc \in {"idle", "done"}
    /\ allocCalls' = [allocCalls EXCEPT ![t] = [IdleAllocCall EXCEPT !.pc = "describe"]]
    /\ UNCHANGED poolOthers

\* instances = self.ec2_client.describe_instances(...); a failure is handled by the
\* except clause
PoolDescribe(t) ==
    /\ allocCalls[t].pc = "describe"
    /\ IF describeOk
       THEN allocCalls' = [allocCalls EXCEPT ![t].pc = "metrics", ![t].i = 1]
       ELSE LET e == ExceptClause(DescribeFailedMsg)
            IN  allocCalls' = [allocCalls EXCEPT ![t].pc = "done",
                                                 ![t].outcome = e.outcome,
                                                 ![t].result = e.result]
    /\ UNCHANGED poolOthers

\* one iteration of the loop: metrics = self.get_instance_energy_metrics(id);
\* if metrics: instance_metrics.append(metrics)
PoolMetrics(t) ==
    /\ allocCalls[t].pc = "metrics"
    /\ allocCalls[t].i <= Len(instances)
    /\ LET i == allocCalls[t].i
       IN  allocCalls' =
              [allocCalls EXCEPT
                  ![t].instance_metrics =
                       @ \o get_instance_energy_metrics(i, instances[i]),
                  ![t].i = i + 1]
    /\ UNCHANGED poolOthers

\* after the loop: return the success dict with the minimum, or raise
\* Exception("No suitable instances ..."), which the except clause handles
PoolSelect(t) ==
    /\ allocCalls[t].pc = "metrics"
    /\ allocCalls[t].i > Len(instances)
    /\ LET instance_metrics == allocCalls[t].instance_metrics
       IN  IF instance_metrics # <<>>
           THEN LET best_instance == instance_metrics[MinIndex(instance_metrics)]
                IN  allocCalls' =
                       [allocCalls EXCEPT
                           ![t].pc = "done",
                           ![t].outcome = "returned",
                           ![t].result =
                                [status |-> "success",
                                 allocated_instance |-> best_instance.instance_id,
                                 energy_consumption |-> best_instance.energy_consumption]]
           ELSE LET e == ExceptClause(NoSuitableMsg)
                IN  allocCalls' = [allocCalls EXCEPT ![t].pc = "done",
                                                     ![t].outcome = e.outcome,
                                                     ![t].result = e.result]
    /\ UNCHANGED poolOthers

----------------------------------------------------------------------------
\* The startup script (start.py): EAAWASStartup.run, start_all_services, cleanup
\* and the __main__ block

\* the steps of run(), in the order of the list `steps`
Steps == <<"check_python_version", "check_aws_credentials", "install_dependencies",
           "check_directories", "verify_configs", "start_all_services">>

\* the services of start_all_services, in the order of the list `services`
Services == <<"data_collector", "api_server">>
ServiceNames == { Services[k] : k \in 1 .. Len(Services) }

\* how a step function can end.  check_python_version returns None or calls
\* sys.exit(1); check_aws_credentials catches every Exception; install_dependencies
\* catches CalledProcessError only; check_directories returns None (mkdir can raise);
\* verify_configs returns True or False (open can raise)
StepOutcomes(step) ==
    CASE step = "check_python_version"  -> {"None", "SystemExit"}
      [] step = "check_aws_credentials" -> {"True", "False"}
      [] step = "install_dependencies"  -> {"True", "False", "raise"}
      [] step = "check_directories"     -> {"None", "raise"}
      [] step = "verify_configs"        -> {"True", "False", "raise"}

\* a loop body that stops on every falsy result (`if not result`)
RunAfter_Truthy(outcome) ==
    IF outcome \in {"False", "None"} THEN "return False"
    ELSE IF outcome = "raise" THEN "return False"
    ELSE IF outcome = "SystemExit" THEN "propagate"
    ELSE "next"

\* the body of the loop of run() after step_func() ended: `result is False` and
\* `except Exception` return False; SystemExit is not an Exception and leaves run
RunAfter(outcome) ==
    IF outcome = "False" THEN "return False"
    ELSE IF outcome = "raise" THEN "return False"
    ELSE IF outcome = "SystemExit" THEN "propagate"
    ELSE "next"

\* run(): one of the first five steps is called and ends with outcome
RunStep(outcome) ==
    /\ mainPc = "run"
    /\ stepIdx < Len(Steps)
    /\ outcome \in StepOutcomes(Steps[stepIdx])
    /\ executed' = Append(executed, [step |-> Steps[stepIdx], outcome |-> outcome])
    /\ LET after == RunAfter(outcome)
       IN  /\ stepIdx' = IF after = "next" THEN stepIdx + 1 ELSE stepIdx
           /\ runOutcome' = IF after = "return False" THEN "False"
                            ELSE IF after = "propagate" THEN "SystemExit"
                            ELSE runOutcome
           /\ mainPc' = IF after = "next" THEN "run" ELSE "finally"
    /\ UNCHANGED <<workers, processes, proc, health, cleanupTodo, terminated>>
    /\ UNCHANGED startOthers

\* run() calls start_all_services: both start_service calls are submitted to the pool
StartAllServices ==
    /\ mainPc = "run"
    /\ stepIdx = Len(Steps)
    /\ executed' = Append(executed, [step |-> Steps[stepIdx], outcome |-> "running"])
    /\ workers' = [s \in ServiceNames |-> "queued"]
    /\ mainPc' = "join"
    /\ UNCHANGED <<stepIdx, runOutcome, processes, proc, health, cleanupTodo, terminated>>
    /\ UNCHANGED startOthers

\* start_service in a pool thread: subprocess.Popen creates the process or raises
StartServicePopen(s, ok) ==
    /\ workers[s] = "queued"
    /\ workers' = [workers EXCEPT ![s] = IF ok THEN "created" ELSE "failed"]
    /\ proc' = [proc EXCEPT ![s] = IF ok THEN "running" ELSE @]
    /\ UNCHANGED <<mainPc, stepIdx, executed, runOutcome, processes, health,
                   cleanupTodo, terminated>>
    /\ UNCHANGED startOthers

\* start_service in a pool thread: self.processes[service_name] = process
StartServiceRecord(s) ==
    /\ workers[s] = "created"
    /\ workers' = [workers EXCEPT ![s] = "recorded"]
    /\ processes' = processes \cup {s}
    /\ UNCHANGED <<mainPc, stepIdx, executed, runOutcome, proc, health,
                   cleanupTodo, terminated>>
    /\ UNCHANGED startOthers

WorkersDone == \A s \in ServiceNames : workers[s] \in {"recorded", "failed"}

\* future.result() of every future has returned; the pool is shut down
JoinFutures ==
    /\ mainPc = "join"
    /\ WorkersDone
    /\ mainPc' = "health"
    /\ UNCHANGED <<stepIdx, executed, runOutcome, workers, processes, proc, health,
                   cleanupTodo, terminated>>
    /\ UNCHANGED startOthers

\* a health check that passes for a service without a recorded process
check_service_health_Missing(procs, states, service_name) ==
    service_name \notin procs \/ states[service_name] = "running"

\* check_service_health(service_name) without a URL: the process is recorded and
\* process.poll() is None
check_service_health(procs, states, service_name) ==
    service_name \in procs /\ states[service_name] = "running"

\* the next service of the health loop
NextUnchecked ==
    CHOOSE k \in 1 .. Len(Services) :
       /\ health[Services[k]] = "unchecked"
       /\ \A j \in 1 .. (k - 1) : health[Services[j]] # "unchecked"

\* start_all_services: one iteration of the health loop
CheckHealth ==
    /\ mainPc = "health"
    /\ \E s \in ServiceNames : health[s] = "unchecked"
    /\ LET s == Services[NextUnchecked]
       IN  health' = [health EXCEPT ![s] =
                         IF check_service_health(processes, proc, s)
                         THEN "healthy" ELSE "unhealthy"]
    /\ UNCHANGED <<mainPc, stepIdx, executed, runOutcome, workers, processes, proc,
                   cleanupTodo, terminated>>
    /\ UNCHANGED startOthers

\* start_all_services returns all_healthy and run() handles it as the result of its
\* last step: it returns False, or leaves the loop and returns True
ServicesReturn ==
    /\ mainPc = "health"
    /\ \A s \in ServiceNames : health[s] # "unchecked"
    /\ LET all_healthy == \A s \in ServiceNames : health[s] = "healthy"
           outcome == IF all_healthy THEN "True" ELSE "False"
           after == RunAfter(outcome)
       IN  /\ executed' = [executed EXCEPT ![Len(executed)].outcome = outcome]
           /\ runOutcome' = IF after = "next" THEN "True" ELSE "False"
           /\ mainPc' = IF after = "next" THEN "waiting" ELSE "finally"
    /\ UNCHANGED <<stepIdx, workers, processes, proc, health, cleanupTodo, terminated>>
    /\ UNCHANGED startOthers

\* a service process ends by itself
ProcessExits(s) ==
    /\ proc[s] = "running"
    /\ proc' = [proc EXCEPT ![s] = "exited"]
    /\ UNCHANGED <<mainPc, stepIdx, executed, runOutcome, workers, processes, health,
                   cleanupTodo, terminated>>
    /\ UNCHANGED startOthers

\* Ctrl+C: KeyboardInterrupt in the main thread, during run() or in the sleep loop
\* after it.  It is not an Exception, so it leaves run(); inside the `with` block of
\* the pool the executor first waits for its threads
CtrlC ==
    /\ mainPc \in {"run", "join", "health", "waiting"}
    /\ runOutcome' = IF mainPc = "waiting" THEN runOutcome ELSE "KeyboardInterrupt"
    /\ mainPc' = IF mainPc = "join" THEN "poolExit" ELSE "finally"
    /\ UNCHANGED <<stepIdx, executed, workers, processes, proc, health, cleanupTodo,
                   terminated>>
    /\ UNCHANGED startOthers

\* ThreadPoolExecutor.__exit__: shutdown(wait=True) has joined the pool threads
PoolExit ==
    /\ mainPc = "poolExit"
    /\ WorkersDone
    /\ mainPc' = "finally"
    /\ UNCHANGED <<stepIdx, executed, runOutcome, workers, processes, proc, health,
                   cleanupTodo, terminated>>
    /\ UNCHANGED startOthers

\* finally: startup.cleanup() starts iterating self.processes.items()
CleanupBegin ==
    /\ mainPc = "finally"
    /\ mainPc' = "cleanup"
    /\ cleanupTodo' = processes
    /\ UNCHANGED <<stepIdx, executed, runOutcome, workers, processes, proc, health,
                   terminated>>
    /\ UNCHANGED startOthers

\* a cleanup that terminates every recorded process
ShouldTerminate_Always(state) == TRUE

\* process.poll() is None
ShouldTerminate(state) == state = "running"

\* cleanup(): one iteration of the loop
CleanupOne(s) ==
    /\ mainPc = "cleanup"
    /\ s \in cleanupTodo
    /\ cleanupTodo' = cleanupTodo \ {s}
    /\ IF ShouldTerminate(proc[s])
       THEN /\ terminated' = terminated \cup {s}
            /\ proc' = [proc EXCEPT ![s] = IF @ = "running" THEN "terminating" ELSE @]
       ELSE UNCHANGED <<terminated, proc>>
    /\ UNCHANGED <<mainPc, stepIdx, executed, runOutcome, workers, processes, health>>
    /\ UNCHANGED startOthers

\* cleanup() returns and the script ends
CleanupEnd ==
    /\ mainPc = "cleanup"
    /\ cleanupTodo = {}
    /\ mainPc' = "exited"
    /\ UNCHANGED <<stepIdx, executed, runOutcome, workers, processes, proc, health,
                   cleanupTodo, terminated>>
    /\ UNCHANGED startOthers

----------------------------------------------------------------------------
\* Request tracking: track_requests (src/utils/metrics.py)

\* the endpoints functions are wrapped for
TrackedEndpoints == {"/allocate", "/metrics/energy"}

\* how the wrapped coroutine ends: it returns, raises an exception derived from
\* Exception, or raises one derived from BaseException only (asyncio.CancelledError
\* when the task of the request is cancelled)
FuncOutcomes == {"returned", "ValueError", "CancelledError"}

\* does `except Exception` catch the exception
IsException(exc) == exc = "ValueError"

\* wrapper(*args, **kwargs) up to `await func(*args, **kwargs)`: start_time is taken
\* and the wrapper is suspended in the try block
TrackCall(ep) ==
    /\ Len(tracked) < MaxCalls
    /\ tracked' = Append(tracked, [endpoint |-> ep, pc |-> "await",
                                   func |-> "pending", caller |-> "pending"])
    /\ UNCHANGED <<REQUESTS_TOTAL, RESPONSE_TIME>>
    /\ UNCHANGED trackOthers

\* the wrapper from the end of the awaited function on: the success increment and
\* the return, or the except clause (increment and bare raise) for an Exception;
\* the finally clause observes the duration on every path
WrapperResume(c, outcome) ==
    /\ c \in 1 .. Len(tracked)
    /\ tracked[c].pc = "await"
    /\ LET ep == tracked[c].endpoint
       IN  /\ REQUESTS_TOTAL' =
                  IF outcome = "returned"
                  THEN [REQUESTS_TOTAL EXCEPT ![ep]["success"] = @ + 1]
                  ELSE IF IsException(outcome)
                       THEN [REQUESTS_TOTAL EXCEPT ![ep]["error"] = @ + 1]
                       ELSE REQUESTS_TOTAL
           /\ RESPONSE_TIME' = [RESPONSE_TIME EXCEPT ![ep] = @ + 1]
    /\ tracked' = [tracked EXCEPT ![c].pc = "done", ![c].func = outcome,
                                  ![c].caller = outcome]
    /\ UNCHANGED trackOthers

----------------------------------------------------------------------------
\* Specifications

\* the module is imported: no label of the counter or the histogram has a value
TrackIdle ==
    /\ REQUESTS_TOTAL = [ep \in TrackedEndpoints |-> [st \in {"success", "error"} |-> 0]]
    /\ RESPONSE_TIME = [ep \in TrackedEndpoints |-> 0]
    /\ tracked = <<>>

\* startup = EAAWASStartup(): no process recorded, run() not entered
StartIdle ==
    /\ mainPc = "run"
    /\ stepIdx = 1
    /\ executed = <<>>
    /\ runOutcome = "none"
    /\ workers = [s \in ServiceNames |-> "none"]
    /\ processes = {}
    /\ proc = [s \in ServiceNames |-> "none"]
    /\ health = [s \in ServiceNames |-> "unchecked"]
    /\ cleanupTodo = {}
    /\ terminated = {}

PoolIdle == allocCalls = [t \in Threads |-> IdleAllocCall]

CycleIdle ==
    /\ cycles = 0
    /\ engineSamples = <<>>
    /\ workload_data = <<>>
    /\ energy_metrics = <<>>
    /\ csvRows = [workload |-> 0, energy |-> 0]
    /\ csvHeaders = [workload |-> 0, energy |-> 0]
    /\ cycleLog = <<>>
    /\ loopPc = "idle"
    /\ stopReason = "none"
    /\ monitoring_data = <<>>
    /\ gauges = << >>

CycleEnvIdle ==
    /\ fleetDescribeOk = TRUE
    /\ fleet = <<>>

ConcIdle ==
    /\ calls = [t \in Threads |-> IdleCall]
    /\ frames = [t \in Threads |-> EmptyFrame]

AllocEnvIdle ==
    /\ describeOk = TRUE
    /\ instances = <<>>

EstIdle ==
    /\ samples = <<>>
    /\ tablesLeft = [power |-> instance_base_power, carbon |-> carbon_factors,
                     monitor_carbon |-> monitor_carbon_factors]

AllocIdle ==
    /\ request = [cpu_request |-> 2, memory_request |-> "4Gi", priority |-> "high",
                  max_energy_consumption |-> <<>>]
    /\ caller = "none"
    /\ allocOutcome = "none"
    /\ allocResult = NoResult
    /\ raisedInside = "none"
    /\ selections = 0
    /\ candidateList = <<>>
    /\ http = NoHttp
    /\ endpoint = NoEndpoint
    /\ registered = FALSE

\* the estimation of samples by the collector and by the monitor
InitEst ==
    /\ EstIdle
    /\ StartIdle
    /\ TrackIdle
    /\ PoolIdle
    /\ AllocIdle
    /\ AllocEnvIdle
    /\ ConcIdle
    /\ CycleIdle
    /\ CycleEnvIdle

NextEst ==
    \/ \E cpu \in CpuValues, t \in InstanceTypes, r \in Regions : CollectSample(cpu, t, r)
    \/ \E d \in MonitorDatapoints, r \in Regions : MonitorSample(d, r)

SpecEst == InitEst /\ [][NextEst]_vars

\* allocation requests against a cloud with up to MaxInstances running instances
InitAlloc ==
    /\ EstIdle
    /\ StartIdle
    /\ TrackIdle
    /\ PoolIdle
    /\ ConcIdle
    /\ CycleIdle
    /\ CycleEnvIdle
    /\ AllocIdle
    /\ describeOk \in BOOLEAN
    /\ instances \in SeqsUpTo(MetricOutcomes, MaxInstances)
    /\ (~describeOk => instances = <<>>)

NextAlloc ==
    \/ \E w \in Workloads : DirectAllocate(w)
    \/ \E w \in Workloads, c \in BOOLEAN : ApiAllocate(w, c)

SpecAlloc == InitAlloc /\ [][NextAlloc]_vars

\* cycles of the collector and of the monitor over a fleet of up to MaxFleet
\* running instances
InitCycle ==
    /\ EstIdle
    /\ StartIdle
    /\ TrackIdle
    /\ PoolIdle
    /\ AllocIdle
    /\ AllocEnvIdle
    /\ ConcIdle
    /\ CycleIdle
    /\ fleetDescribeOk \in BOOLEAN
    /\ fleet \in SeqsUpTo(FleetInstances, MaxFleet)
    /\ (~fleetDescribeOk => fleet = <<>>)

\* in these cycles the two files can be written
NextCycle ==
    \/ CollectAndSaveData("ok", "ok")
    \/ MonitorInstances

SpecCycle == InitCycle /\ [][NextCycle]_vars

\* the instances of the collection loop: one whose queries succeed, one whose
\* queries fail
LoopInstances ==
    { i \in FleetInstances :
         /\ i.instance_type = "t3.medium"
         /\ \/ ~i.retrieval.ok
            \/ i.retrieval.datapoints = DatapointsOf(<<F(50)>>, {}) }

\* the loop of start_collection, with cloud calls and file writes that can fail
InitLoop ==
    /\ EstIdle
    /\ StartIdle
    /\ TrackIdle
    /\ PoolIdle
    /\ ConcIdle
    /\ CycleIdle
    /\ AllocIdle
    /\ AllocEnvIdle
    /\ fleetDescribeOk \in BOOLEAN
    /\ fleet \in SeqsUpTo(LoopInstances, MaxFleet)

NextLoop ==
    \/ StartCollection
    \/ \E saveW \in SaveOutcomes, saveE \in SaveOutcomes : LoopCollect(saveW, saveE)
    \/ \E ok \in BOOLEAN : LoopSleep(ok)
    \/ LoopInterrupt
    \/ CloudChanges

SpecLoop == InitLoop /\ [][NextLoop]_vars

\* MaxThreads threads of a pool calling allocate_workload on one allocator, against
\* a cloud with up to MaxFleet running instances
InitPool ==
    /\ EstIdle
    /\ StartIdle
    /\ TrackIdle
    /\ PoolIdle
    /\ ConcIdle
    /\ CycleIdle
    /\ CycleEnvIdle
    /\ AllocIdle
    /\ describeOk \in BOOLEAN
    /\ instances \in SeqsUpTo(MetricOutcomes, MaxFleet)
    /\ (~describeOk => instances = <<>>)

NextPool ==
    \/ \E t \in Threads : PoolCall(t)
    \/ \E t \in Threads : PoolDescribe(t)
    \/ \E t \in Threads : PoolMetrics(t)
    \/ \E t \in Threads : PoolSelect(t)

SpecPool == InitPool /\ [][NextPool]_vars

\* one run of the startup script
InitStart ==
    /\ EstIdle
    /\ StartIdle
    /\ TrackIdle
    /\ PoolIdle
    /\ ConcIdle
    /\ CycleIdle
    /\ CycleEnvIdle
    /\ AllocIdle
    /\ AllocEnvIdle

NextStart ==
    \/ \E o \in {"None", "True", "False", "raise", "SystemExit"} : RunStep(o)
    \/ StartAllServices
    \/ \E s \in ServiceNames, ok \in BOOLEAN : StartServicePopen(s, ok)
    \/ \E s \in ServiceNames : StartServiceRecord(s)
    \/ JoinFutures
    \/ CheckHealth
    \/ ServicesReturn
    \/ \E s \in ServiceNames : ProcessExits(s)
    \/ CtrlC
    \/ PoolExit
    \/ CleanupBegin
    \/ \E s \in ServiceNames : CleanupOne(s)
    \/ CleanupEnd

SpecStart == InitStart /\ [][NextStart]_vars

\* calls of functions wrapped by track_requests, suspended at their await
InitTrack ==
    /\ EstIdle
    /\ StartIdle
    /\ TrackIdle
    /\ PoolIdle
    /\ ConcIdle
    /\ CycleIdle
    /\ CycleEnvIdle
    /\ AllocIdle
    /\ AllocEnvIdle

NextTrack ==
    \/ \E ep \in TrackedEndpoints : TrackCall(ep)
    \/ \E c \in 1 .. MaxCalls, o \in FuncOutcomes : WrapperResume(c, o)

SpecTrack == InitTrack /\ [][NextTrack]_vars

\* HTTP requests to the three endpoints of one server process
NextApi ==
    \/ \E w \in Workloads, ctorOk \in BOOLEAN : ApiAllocate(w, ctorOk)
    \/ \E r \in CycleRetrievals, ctorOk \in BOOLEAN : ApiEnergy("i-1", r, ctorOk)
    \/ \E r \in Regions, ctorOk \in BOOLEAN : ApiSustainability(r, ctorOk)

SpecApi == InitPool /\ [][NextApi]_vars

\* one process estimating samples and serving allocation requests: the inputs of
\* the operations before and after them
FrameWorkload == [cpu_request |-> 2, memory_request |-> "4Gi", priority |-> "high",
                  max_energy_consumption |-> <<>>]

NextFrame ==
    \/ DirectAllocate(FrameWorkload)
    \/ \E r \in {"us-east-1", "sa-east-1"} : CollectSample(F(50), "m5.large", r)
    \/ MonitorSample(<<F(50)>>, "sa-east-1")

SpecFrame == InitAlloc /\ [][NextFrame]_vars

\* threads calling the two estimate functions of one collector concurrently
InitConc ==
    /\ EstIdle
    /\ StartIdle
    /\ TrackIdle
    /\ PoolIdle
    /\ AllocIdle
    /\ AllocEnvIdle
    /\ ConcIdle
    /\ CycleIdle
    /\ CycleEnvIdle

NextConc ==
    \/ \E t \in Threads, a \in ConcEnergyArgs : ConcCall(t, "energy", a[1], a[2])
    \/ \E t \in Threads, a \in ConcCarbonArgs : ConcCall(t, "carbon", a[1], a[2])
    \/ \E t \in Threads : ConcLookup(t)
    \/ \E t \in Threads : ConcMax(t)
    \/ \E t \in Threads : ConcReturn(t)

SpecConc == InitConc /\ [][NextConc]_vars


----------------------------------------------------------------------------
\* Properties of the allocation (SpecAlloc)

\* the running instances whose metric query did not raise: the candidates
Retrieved == { i \in 1 .. Len(instances) : instances[i].ok }
\* the energy_consumption of candidate i
EnergyOf(i) == Mean(instances[i].values)
\* a request was served by allocate_workload with describe_instances succeeding
Served == allocOutcome # "none" /\ describeOk

\* order of the energy keys in which an undefined (NaN) key is never minimal
KeyLt(a, b) == ~IsNaN(a) /\ (IsNaN(b) \/ FLt(a, b))
KeyLe(a, b) == IsNaN(b) \/ FLe(a, b)

\* k is the first candidate of minimal energy_consumption
FirstMinimal(k) ==
    /\ k \in Retrieved
    /\ \A j \in Retrieved : (j < k => KeyLt(EnergyOf(k), EnergyOf(j)))
                         /\ (j > k => KeyLe(EnergyOf(k), EnergyOf(j)))

\* C1: for every non-empty candidate list allocate_workload returns status
\* 'success' with the first candidate of minimal energy_consumption; instances
\* whose metric retrieval failed are not candidates.
C1_FirstMinimumSelected ==
    (Served /\ Retrieved # {}) =>
        /\ allocOutcome = "returned"
        /\ allocResult.status = "success"
        /\ FirstMinimal(allocResult.allocated_instance)
        /\ allocResult.energy_consumption = EnergyOf(allocResult.allocated_instance)

\* C1, restricted to candidate lists in which every energy_consumption is defined
\* (no metric query returned an empty Values list)
C1_FirstMinimumOfDefined ==
    (Served /\ Retrieved # {} /\ \A i \in Retrieved : instances[i].values # <<>>) =>
        /\ allocOutcome = "returned"
        /\ allocResult.status = "success"
        /\ FirstMinimal(allocResult.allocated_instance)
        /\ allocResult.energy_consumption = EnergyOf(allocResult.allocated_instance)

\* C2: when the candidate set is empty (no running instance, or every metric
\* retrieval failed) the selection reaches the 'No suitable instances found'
\* error condition and no instance is reported as allocated.
C2_EmptyCandidatesError ==
    (Served /\ Retrieved = {}) =>
        /\ raisedInside = "NoSuitableInstances"
        /\ allocOutcome = "returned" =>
              /\ allocResult.status = "error"
              /\ allocResult.message = NoSuitableMsg
              /\ "allocated_instance" \notin DOMAIN allocResult
        /\ (caller = "api" /\ http.code = 200) =>
              "allocated_instance" \notin DOMAIN http.body

\* C2 witness: two running instances, both metric queries failed, request served
C2_Witness ==
    /\ Served
    /\ Len(instances) = 2
    /\ Retrieved = {}
    /\ raisedInside = "NoSuitableInstances"
    /\ allocResult.status = "error"

\* C3 as stated: the empty-candidate error leaves allocate_workload as a raised
\* error (it is not converted into a returned value).
C3_ErrorPropagatesRaised ==
    (Served /\ Retrieved = {}) => allocOutcome = "raised"

\* C3 amended: the empty-candidate error is raised inside allocate_workload and
\* caught there; the caller gets the returned dict {status: 'error', message: 'No
\* suitable instances found ...'}, the HTTP endpoint answers 200 with that dict, and
\* the selection ran once (no retry).
C3_ErrorReturnedAsDict ==
    (Served /\ Retrieved = {}) =>
        /\ raisedInside = "NoSuitableInstances"
        /\ allocOutcome = "returned"
        /\ allocResult = [status |-> "error", message |-> NoSuitableMsg]
        /\ selections = 1
        /\ caller = "api" => http = [code |-> 200, body |-> allocResult]

\* C3 witness: the endpoint served a request while no instance was running
C3_Witness ==
    /\ Served
    /\ caller = "api"
    /\ instances = <<>>
    /\ allocOutcome = "returned"
    /\ http.code = 200
    /\ http.body.status = "error"


----------------------------------------------------------------------------
\* Properties of the estimation (SpecEst)

SampleIdx == 1 .. Len(samples)
IsCollector(i) == samples[i].src = "collector"
IsMonitor(i) == samples[i].src = "monitor"
InRange(c) == FLe(F(0), c) /\ FLe(c, F(100))
IsNumber(x) == Len(x) = 2 /\ x[2] > 0

\* the entry of the power table as the claims name it
TableBase(instance_type) == F(instance_base_power[instance_type])

\* C4: for cpu in [0,100] and an instance type of the table the estimate is
\* base + (max_power - base) * cpu / 100 with max_power = base * 2.5; it is base at
\* 0%, base * 2.5 at 100%, and 14.0 for (50, 't3.medium').
C4_LinearInterpolation ==
    \A i \in SampleIdx :
        (/\ IsCollector(i)
         /\ InRange(samples[i].cpu_utilization)
         /\ samples[i].instance_type \in DOMAIN instance_base_power) =>
            LET cpu  == samples[i].cpu_utilization
                base == TableBase(samples[i].instance_type)
                max  == FMul(base, <<5, 2>>)
                e    == samples[i].energy_consumption
            IN  /\ e = FAdd(base, FDiv(FMul(FSub(max, base), cpu), F(100)))
                /\ cpu = F(0) => e = base
                /\ cpu = F(100) => e = max
                /\ (cpu = F(50) /\ samples[i].instance_type = "t3.medium") => e = F(14)

\* C4 witness: the collector estimated (50, 't3.medium') as 14.0 and (100,
\* 't2.small') as 10.0
C4_Witness ==
    /\ Len(samples) = 2
    /\ IsCollector(1) /\ IsCollector(2)
    /\ samples[1].cpu_utilization = F(50) /\ samples[1].instance_type = "t3.medium"
    /\ samples[1].energy_consumption = F(14)
    /\ samples[2].cpu_utilization = F(100) /\ samples[2].instance_type = "t2.small"
    /\ samples[2].energy_consumption = F(10)

\* a sample of the collector estimated from a utilization in [0,100], or a sample
\* of the monitor (whose datapoints are in [0,100])
FromValidUtilization(i) == IsMonitor(i) \/ InRange(samples[i].cpu_utilization)

\* C5: for every energy value and region the carbon estimate (of the collector
\* and of the monitor) is (energy_watts / 1_000_000) * factor; 0.0056 for
\* (14.0, 'us-east-1').  Stated for the energy values the estimators produce from
\* a utilization in [0,100].
C5_CarbonPerMillion ==
    \A i \in SampleIdx :
        FromValidUtilization(i) =>
            LET factor == F(DictGet(carbon_factors, samples[i].region, 500))
            IN  /\ samples[i].carbon_footprint
                      = FMul(FDiv(samples[i].energy_consumption, F(1000000)), factor)
                /\ (samples[i].energy_consumption = F(14)
                       /\ samples[i].region = "us-east-1") =>
                      samples[i].carbon_footprint = <<7, 1250>>

\* C6: for an instance type that is not a key of the power table the estimate
\* does not fail and uses base 5 W and max_power 12.5 W (5 at 0%, 12.5 at 100%).
C6_UnknownTypeFallback ==
    \A i \in SampleIdx :
        (IsCollector(i) /\ samples[i].instance_type \notin DOMAIN instance_base_power) =>
            LET cpu == samples[i].cpu_utilization
                e   == samples[i].energy_consumption
            IN  /\ IsNumber(e)
                /\ e = FAdd(F(5), FMul(FSub(<<25, 2>>, F(5)), FDiv(cpu, F(100))))
                /\ cpu = F(0) => e = F(5)
                /\ cpu = F(100) => e = <<25, 2>>

\* C6 witness: an unknown instance type estimated at 100% as 12.5 W
C6_Witness ==
    \E i \in SampleIdx :
        /\ IsCollector(i)
        /\ samples[i].instance_type = "m5.large"
        /\ samples[i].cpu_utilization = F(100)
        /\ samples[i].energy_consumption = <<25, 2>>

\* C7: for a region that is not a key of the carbon-factor table the carbon
\* estimate (of the collector and of the monitor) does not fail and uses the
\* factor 500; no estimate ends in an error: every sample carries a numeric
\* energy and carbon value.
C7_UnknownRegionFallback ==
    \A i \in SampleIdx :
        /\ IsNumber(samples[i].energy_consumption)
        /\ IsNumber(samples[i].carbon_footprint)
        /\ samples[i].region \notin DOMAIN carbon_factors =>
              samples[i].carbon_footprint
                  = FMul(FDiv(samples[i].energy_consumption, F(1000)), F(500))

\* C7 witness: both estimators handled a region that is not in the table, with
\* non-zero energy
C7_Witness ==
    /\ Len(samples) = 2
    /\ IsCollector(1) /\ IsMonitor(2)
    /\ samples[1].region = "sa-east-1" /\ samples[2].region = "sa-east-1"
    /\ samples[1].energy_consumption = F(14)
    /\ samples[1].carbon_footprint = F(7)
    /\ samples[2].energy_consumption = F(200)
    /\ samples[2].carbon_footprint = F(100)

\* C8: for every instance type and cpu values u1 <= u2 in [0,100] the estimate
\* at u1 is at most the estimate at u2.
C8_Monotone ==
    \A i, j \in SampleIdx :
        (/\ IsCollector(i) /\ IsCollector(j)
         /\ samples[i].instance_type = samples[j].instance_type
         /\ InRange(samples[i].cpu_utilization)
         /\ InRange(samples[j].cpu_utilization)
         /\ FLe(samples[i].cpu_utilization, samples[j].cpu_utilization)) =>
            FLe(samples[i].energy_consumption, samples[j].energy_consumption)

\* C8 witness: two estimates of one instance type at 25% and then at 75%
C8_Witness ==
    /\ Len(samples) = 2
    /\ IsCollector(1) /\ IsCollector(2)
    /\ samples[1].instance_type = "t2.small" /\ samples[2].instance_type = "t2.small"
    /\ samples[1].cpu_utilization = F(25)
    /\ samples[2].cpu_utilization = F(75)
    /\ FLt(samples[1].energy_consumption, samples[2].energy_consumption)

\* C9: for every instance type and cpu in [0,100] the estimate lies in the closed
\* interval [base, max_power] of the type's profile (the fallback profile for a
\* type that is not in the table).
C9_WithinProfile ==
    \A i \in SampleIdx :
        (IsCollector(i) /\ InRange(samples[i].cpu_utilization)) =>
            LET base == F(DictGet(instance_base_power, samples[i].instance_type, 5))
                max  == FMul(base, <<5, 2>>)
            IN  /\ FLe(base, samples[i].energy_consumption)
                /\ FLe(samples[i].energy_consumption, max)

\* C9 witness: estimates strictly inside the interval and at its upper end
C9_Witness ==
    /\ Len(samples) = 2
    /\ IsCollector(1) /\ IsCollector(2)
    /\ samples[1].cpu_utilization = F(75) /\ samples[1].instance_type = "m5.large"
    /\ FLt(F(5), samples[1].energy_consumption)
    /\ FLt(samples[1].energy_consumption, <<25, 2>>)
    /\ samples[2].cpu_utilization = F(100) /\ samples[2].instance_type = "t3.medium"
    /\ samples[2].energy_consumption = F(20)

\* C10: for every region and energy >= 0 the carbon estimate is >= 0, and it is
\* linear in the energy for a fixed region: twice the energy gives twice the carbon
\* (for the collector's and for the monitor's estimate).
C10_NonNegativeLinear ==
    /\ \A i \in SampleIdx :
           FLe(F(0), samples[i].energy_consumption) =>
               FLe(F(0), samples[i].carbon_footprint)
    /\ \A i, j \in SampleIdx :
           (/\ samples[i].src = samples[j].src
            /\ samples[i].region = samples[j].region
            /\ samples[j].energy_consumption
                   = FMul(F(2), samples[i].energy_consumption)) =>
               samples[j].carbon_footprint = FMul(F(2), samples[i].carbon_footprint)

\* C10 witness: two collector estimates for one region, the second of twice the
\* (positive) energy of the first
C10_Witness ==
    /\ Len(samples) = 2
    /\ IsCollector(1) /\ IsCollector(2)
    /\ samples[1].region = "eu-west-1" /\ samples[2].region = "eu-west-1"
    /\ samples[1].energy_consumption = F(7)
    /\ samples[2].energy_consumption = F(14)
    /\ samples[1].carbon_footprint = <<7, 5>>
    /\ samples[2].carbon_footprint = <<14, 5>>


\* C11 as stated: the utilization is clamped to [0,100], so for any numeric input
\* the estimate stays within [base, max_power].
C11_ClampedWithinProfile ==
    \A i \in SampleIdx :
        IsCollector(i) =>
            LET base == F(DictGet(instance_base_power, samples[i].instance_type, 5))
                max  == FMul(base, <<5, 2>>)
            IN  /\ FLe(base, samples[i].energy_consumption)
                /\ FLe(samples[i].energy_consumption, max)

\* C11 amended: the utilization is not clamped; the linear model is applied to the
\* value as given, so the estimate is below base for a utilization below 0 and
\* above max_power for a utilization above 100, and within [base, max_power]
\* exactly for a utilization in [0,100].
C11_UnclampedLinear ==
    \A i \in SampleIdx :
        IsCollector(i) =>
            LET cpu  == samples[i].cpu_utilization
                base == F(DictGet(instance_base_power, samples[i].instance_type, 5))
                max  == FMul(base, <<5, 2>>)
                e    == samples[i].energy_consumption
            IN  /\ e = FAdd(base, FDiv(FMul(FSub(max, base), cpu), F(100)))
                /\ FLt(cpu, F(0)) => FLt(e, base)
                /\ FLt(F(100), cpu) => FLt(max, e)
                /\ InRange(cpu) <=> (FLe(base, e) /\ FLe(e, max))

\* C11 witness: estimates at 125% (above max_power) and at -25% (below base)
C11_Witness ==
    /\ Len(samples) = 2
    /\ IsCollector(1) /\ IsCollector(2)
    /\ samples[1].cpu_utilization = F(125) /\ samples[1].instance_type = "t3.medium"
    /\ samples[1].energy_consumption = F(23)
    /\ samples[2].cpu_utilization = F(-25) /\ samples[2].instance_type = "t3.medium"
    /\ samples[2].energy_consumption = F(5)


----------------------------------------------------------------------------
\* Properties of the concurrent estimate calls (SpecConc)

\* C12: under every interleaving of concurrent estimate calls each call returns
\* the value it returns when run alone on the same arguments.
C12_SameAsAlone ==
    \A t \in Threads :
        calls[t].pc = "done" =>
            calls[t].result =
                IF calls[t].fn = "energy"
                THEN estimate_energy_consumption(calls[t].x, calls[t].key)
                ELSE estimate_carbon_footprint(calls[t].x, calls[t].key)

\* C12 witness: two calls of different instance types overlapped and both returned
C12_Witness ==
    /\ calls[1].pc = "done" /\ calls[2].pc = "done"
    /\ calls[1].overlapped /\ calls[2].overlapped
    /\ calls[1].fn = "energy" /\ calls[2].fn = "energy"
    /\ calls[1].key = "t3.medium" /\ calls[2].key = "m5.large"
    /\ calls[1].result = F(14)
    /\ calls[2].result = <<25, 2>>


----------------------------------------------------------------------------
\* Properties of the inputs of the operations (SpecFrame)

\* the candidates in describe order, as the loop of allocate_workload builds them
RECURSIVE CandidatesBuilt(_)
CandidatesBuilt(i) ==
    IF i > Len(instances) THEN <<>>
    ELSE (IF instances[i].ok
          THEN <<[instance_id |-> i, energy_consumption |-> EnergyOf(i)]>>
          ELSE <<>>) \o CandidatesBuilt(i + 1)

\* C13: the selection does not reorder, remove or modify any entry of the
\* candidate list, and no estimate call changes the power or carbon table (the
\* table a later call sees is the table as written in the code).
C13_InputsUnchanged ==
    /\ Served => candidateList = CandidatesBuilt(1)
    /\ tablesLeft.power = instance_base_power
    /\ tablesLeft.carbon = carbon_factors
    /\ tablesLeft.monitor_carbon = monitor_carbon_factors

\* C13 witness: a selection among three candidates whose minimum is the last one,
\* after estimates for an instance type and a region that are not in the tables
C13_Witness ==
    /\ Served
    /\ Len(instances) = 3 /\ Retrieved = {1, 2, 3}
    /\ allocResult.status = "success"
    /\ allocResult.allocated_instance = 3
    /\ Len(candidateList) = 3
    /\ Len(samples) = 2
    /\ IsCollector(1) /\ samples[1].instance_type = "m5.large"
    /\ samples[1].region = "sa-east-1"
    /\ IsMonitor(2)


----------------------------------------------------------------------------
\* Properties of the collection and monitoring cycles (SpecCycle)

\* a collection cycle has run over the fleet
Collected == cycles > 0 /\ fleetDescribeOk
\* the Datapoints of metric m of fleet instance i
FleetDatapoints(i, m) == fleet[i].retrieval.datapoints[m]

\* C14: every sample passed to the estimation has a numeric value for each of the
\* six metrics, 0 for a metric without a datapoint in the window; the
\* memory_usage of the records is 0 when MemoryUtilization has no datapoint.
C14_SamplesComplete ==
    /\ \A k \in 1 .. Len(engineSamples) :
          LET smp == engineSamples[k]
          IN  /\ DOMAIN smp.metrics = MetricNames
              /\ \A m \in MetricNames :
                    /\ IsNumber(smp.metrics[m])
                    /\ FleetDatapoints(smp.instance_id, m) = <<>>
                          => smp.metrics[m] = F(0)
    /\ \A k \in 1 .. Len(energy_metrics) :
          FleetDatapoints(energy_metrics[k].instance_id, "MemoryUtilization") = <<>>
             => /\ energy_metrics[k].memory_usage = F(0)
                /\ workload_data[k].memory_usage = F(0)

\* C14 witness: a sample with a CPU datapoint and no memory datapoint was estimated
C14_Witness ==
    /\ Collected
    /\ \E k \in 1 .. Len(engineSamples) :
          /\ FleetDatapoints(engineSamples[k].instance_id, "MemoryUtilization") = <<>>
          /\ FleetDatapoints(engineSamples[k].instance_id, "CPUUtilization") # <<>>
          /\ FleetDatapoints(engineSamples[k].instance_id, "NetworkIn") # <<>>
          /\ energy_metrics[k].memory_usage = F(0)

\* the base power of the profile of an instance type: its entry of the power table,
\* the default profile for a type outside the table
ProfileBase(instance_type) ==
    F(IF instance_type \in DOMAIN instance_base_power
      THEN instance_base_power[instance_type] ELSE DefaultBasePower)

\* C15: an instance without a CPU datapoint in the window is estimated at 0%
\* utilization: its energy is the base power of its profile, in the energy record
\* of the collector (the entry of the power table) and in the entry of the monitor
\* (base_power, 100 W).
C15_NoDatapointIsBasePower ==
    /\ \A k \in 1 .. Len(energy_metrics) :
          FleetDatapoints(energy_metrics[k].instance_id, "CPUUtilization") = <<>>
             => /\ energy_metrics[k].cpu_utilization = F(0)
                /\ energy_metrics[k].energy_consumption
                      = ProfileBase(energy_metrics[k].instance_type)
    /\ \A k \in 1 .. Len(monitoring_data) :
          FleetDatapoints(monitoring_data[k].instance_id, "CPUUtilization") = <<>>
             => monitoring_data[k].energy_consumption = F(100)

\* C16: every energy record of a cycle echoes the utilization the estimate was
\* computed from (the first CPU datapoint, 0 without one), its energy is
\* estimate_energy_consumption of that utilization and its instance type, and its
\* carbon footprint is estimate_carbon_footprint of that energy and its region.
C16_RecordSelfConsistent ==
    \A k \in 1 .. Len(energy_metrics) :
       LET r  == energy_metrics[k]
           dp == FleetDatapoints(r.instance_id, "CPUUtilization")
       IN  /\ r.cpu_utilization = (IF dp = <<>> THEN F(0) ELSE dp[1])
           /\ r.cpu_utilization = engineSamples[k].metrics["CPUUtilization"]
           /\ r.instance_type = fleet[r.instance_id].instance_type
           /\ r.energy_consumption
                 = estimate_energy_consumption(r.cpu_utilization, r.instance_type)
           /\ r.carbon_footprint
                 = estimate_carbon_footprint(r.energy_consumption, r.region)

\* C16 witness: a record of an m5.large (default profile) at 100% in a region
\* outside the carbon table: 12.5 W and 6.25
C16_Witness ==
    /\ Collected
    /\ \E k \in 1 .. Len(energy_metrics) :
          /\ energy_metrics[k].instance_type = "m5.large"
          /\ energy_metrics[k].region = "sa-east-1"
          /\ energy_metrics[k].cpu_utilization = F(100)
          /\ energy_metrics[k].energy_consumption = <<25, 2>>
          /\ energy_metrics[k].carbon_footprint = <<25, 4>>

\* the fleet instances whose metric queries succeeded, and those that failed
FleetRetrieved == { i \in 1 .. Len(fleet) : fleet[i].retrieval.ok }
FleetFailed == { i \in 1 .. Len(fleet) : ~fleet[i].retrieval.ok }

\* C17: after a cycle every retrieved instance has exactly one energy record and
\* there are as many workload records as retrieved instances (one each, in the same
\* order); an instance whose retrieval failed has no record, whatever its position.
C17_OneRecordEach ==
    Collected =>
       /\ \A i \in FleetRetrieved :
             Cardinality({ k \in 1 .. Len(energy_metrics) :
                              energy_metrics[k].instance_id = i }) = 1
       /\ \A i \in FleetFailed :
             ~ \E k \in 1 .. Len(energy_metrics) : energy_metrics[k].instance_id = i
       /\ Len(workload_data) = Cardinality(FleetRetrieved)
       /\ Len(energy_metrics) = Cardinality(FleetRetrieved)
       /\ \A k \in 1 .. Len(workload_data) :
             workload_data[k].cpu_utilization = energy_metrics[k].cpu_utilization
       /\ csvRows.workload = cycles * Cardinality(FleetRetrieved)
       /\ csvRows.energy = cycles * Cardinality(FleetRetrieved)

\* C17 witness: the first instance failed and the second one has its two records
C17_Witness ==
    /\ Collected
    /\ Len(fleet) = 2
    /\ FleetFailed = {1} /\ FleetRetrieved = {2}
    /\ Len(energy_metrics) = 1 /\ Len(workload_data) = 1
    /\ energy_metrics[1].instance_id = 2


----------------------------------------------------------------------------
\* Properties of concurrent allocation requests (SpecPool)

----------------------------------------------------------------------------
\* Properties of the HTTP endpoints (SpecApi)

\* C19: every request to one of the three endpoints is answered with status 200 or
\* 404; the energy endpoint answers 404 when no metrics could be retrieved for the
\* instance.  Stated for the requests whose service object could be configured
\* (config file and AWS clients present).
C19_Only200Or404 ==
    (endpoint.route # "none" /\ endpoint.ctorOk) =>
       /\ http.code \in {200, 404}
       /\ (endpoint.route = "/metrics/energy" /\ ~endpoint.retrieved)
             => http.code = 404


----------------------------------------------------------------------------
\* Properties of the allocation result (SpecAlloc)

\* C20: the dict returned for a workload that was placed (status "success") has an
\* 'instance_type' key and a 'region' key.
C20_ResultNamesPlacement ==
    (Served /\ allocOutcome = "returned" /\ allocResult.status = "success")
       => {"instance_type", "region"} \subseteq DOMAIN allocResult


\* C21: when the metric queries of the instance succeed, the metrics EnergyMonitor
\* returns to the energy endpoint are non-None and have the keys
\* 'energy_consumption' and 'carbon_footprint', and the response reports the values
\* of these two keys.
C21_MetricsHaveEnergyFields ==
    (endpoint.route = "/metrics/energy" /\ endpoint.retrieved /\ http.code = 200) =>
       /\ endpoint.metrics # <<>>
       /\ {"energy_consumption", "carbon_footprint"} \subseteq DOMAIN endpoint.metrics[1]
       /\ http.body.energy_consumption = endpoint.metrics[1]["energy_consumption"]
       /\ http.body.carbon_footprint = endpoint.metrics[1]["carbon_footprint"]


----------------------------------------------------------------------------
\* Properties of the startup script (SpecStart)

\* the outcomes with which a step fails
FailedOutcomes == {"False", "raise", "SystemExit"}
\* a service process or a start_service call exists
ServiceStarted == \E s \in ServiceNames : proc[s] # "none" \/ workers[s] # "none"
\* run() took its steps in the order of the list, without skipping one
InStepOrder == \A k \in 1 .. Len(executed) : executed[k].step = Steps[k]
\* no service is started unless credentials, dependencies and configs succeeded
ServicesOnlyAfterChecks ==
    ServiceStarted =>
       /\ Len(executed) = Len(Steps)
       /\ executed[2].outcome = "True"
       /\ executed[3].outcome = "True"
       /\ executed[5].outcome = "True"
\* run() returns True only after six steps none of which failed
TrueOnlyIfAllPassed ==
    runOutcome = "True" =>
       /\ Len(executed) = Len(Steps)
       /\ \A k \in 1 .. Len(executed) : executed[k].outcome \in {"None", "True"}

\* C22 as stated: the steps run in the fixed order; a step that returns False or
\* raises (the sys.exit of the Python version check included) is the last step
\* executed and makes run return False; no service is started unless the
\* credential, dependency and configuration steps succeeded; run returns True only
\* if no step failed.
C22_FailedStepReturnsFalse ==
    /\ InStepOrder
    /\ \A k \in 1 .. Len(executed) :
          executed[k].outcome \in FailedOutcomes
             => k = Len(executed) /\ runOutcome = "False"
    /\ ServicesOnlyAfterChecks
    /\ TrueOnlyIfAllPassed

\* C22 amended: as above, but a step that returns False or raises an Exception
\* makes run return False, while the sys.exit(1) of check_python_version leaves
\* run with SystemExit (run does not return); run returns False only after a step
\* that returned False or raised an Exception.
C22_FailedStepEndsRun ==
    /\ InStepOrder
    /\ \A k \in 1 .. Len(executed) :
          executed[k].outcome \in FailedOutcomes
             => /\ k = Len(executed)
                /\ runOutcome = (IF executed[k].outcome = "SystemExit"
                                 THEN "SystemExit" ELSE "False")
    /\ runOutcome = "False"
          => /\ executed # <<>>
             /\ executed[Len(executed)].outcome \in {"False", "raise"}
    /\ ServicesOnlyAfterChecks
    /\ TrueOnlyIfAllPassed

\* C22 witness: the Python version check called sys.exit(1); the script has ended
\* without run returning and without any later step
C22_Witness ==
    /\ mainPc = "exited"
    /\ runOutcome = "SystemExit"
    /\ Len(executed) = 1
    /\ executed[1] = [step |-> "check_python_version", outcome |-> "SystemExit"]
    /\ ~ServiceStarted

\* C23: when the script has ended, on whatever path (run returned False, run was
\* left by sys.exit or by Ctrl+C, Ctrl+C in the sleep loop after a successful
\* start), cleanup has visited every recorded process: no created process is
\* still running without having been sent terminate, and terminate was sent only
\* to processes that had not exited.
C23_CleanupOnEveryExit ==
    mainPc = "exited" =>
       /\ runOutcome # "none"
       /\ cleanupTodo = {}
       /\ \A s \in ServiceNames :
             /\ proc[s] # "running"
             /\ proc[s] = "terminating" <=> s \in terminated
             /\ proc[s] = "exited" => s \notin terminated

\* C23 witness: Ctrl+C after a successful start; one service had exited by itself
\* and was left alone, the other one was sent terminate
C23_Witness ==
    /\ mainPc = "exited"
    /\ runOutcome = "True"
    /\ proc["data_collector"] = "exited"
    /\ proc["api_server"] = "terminating"
    /\ terminated = {"api_server"}

\* start_all_services has returned
ServicesReturned ==
    /\ Len(executed) = Len(Steps)
    /\ executed[Len(Steps)].outcome \in {"True", "False"}

\* C24: under every interleaving of the two start_service calls, once both have
\* completed self.processes holds exactly the services whose process was created;
\* start_all_services returns True iff every service passed its health check, and
\* a service passes its health check iff it is recorded in self.processes and its
\* process has not exited when it is checked.
C24_RecordedAndHealthy ==
    /\ [](WorkersDone => processes = { s \in ServiceNames : proc[s] # "none" })
    /\ [](ServicesReturned =>
             /\ (executed[Len(Steps)].outcome = "True")
                   <=> (\A s \in ServiceNames : health[s] = "healthy")
             /\ executed[Len(Steps)].outcome = "True" => processes = ServiceNames)
    /\ [][\A s \in ServiceNames :
             (health[s] = "unchecked" /\ health'[s] # "unchecked")
                => ((health'[s] = "healthy")
                       <=> (s \in processes /\ proc[s] = "running"))]_vars

\* C24 witness: the api_server process could not be created, the data_collector
\* was recorded and healthy, and start_all_services returned False
C24_Witness ==
    /\ ServicesReturned
    /\ executed[Len(Steps)].outcome = "False"
    /\ workers["api_server"] = "failed"
    /\ processes = {"data_collector"}
    /\ health["data_collector"] = "healthy"
    /\ health["api_server"] = "unhealthy"


----------------------------------------------------------------------------
\* Properties of the collection loop (SpecLoop)

\* C25: a cycle in which an exception was raised (a failing cloud call or file
\* write) does not end the loop: after it the loop sleeps and then starts the next
\* cycle; the loop stops only on KeyboardInterrupt or on an exception raised
\* outside collect_and_save_data.
C25_LoopSurvivesFailedCycles ==
    /\ [](loopPc = "stopped"
             => stopReason \in {"KeyboardInterrupt", "exception outside the cycle"})
    /\ [][(Len(cycleLog') = Len(cycleLog) + 1 /\ loopPc = "collect")
             => loopPc' = "sleep"]_vars
    /\ [][(loopPc = "sleep" /\ loopPc' # "sleep")
             => \/ loopPc' = "collect"
                \/ stopReason' \in {"KeyboardInterrupt", "exception outside the cycle"}]_vars

\* C25 witness: the first cycle failed in its second file write, the second cycle
\* ran and appended its rows
C25_Witness ==
    /\ loopPc = "sleep"
    /\ cycleLog = <<"failed", "ok">>
    /\ fleetDescribeOk
    /\ csvRows.energy > 0
    /\ csvRows.workload > csvRows.energy

\* C26: after any sequence of cycles the two CSV files hold the same number of
\* data rows, and each file that exists has exactly one header row.
C26_SameRowsOneHeader ==
    /\ csvRows.workload = csvRows.energy
    /\ csvHeaders.workload <= 1 /\ csvHeaders.energy <= 1
    /\ csvRows.workload > 0 => csvHeaders.workload = 1
    /\ csvRows.energy > 0 => csvHeaders.energy = 1


----------------------------------------------------------------------------
\* Further properties of the allocation (SpecAlloc)

\* C27: when some candidate has a defined energy_consumption (its metric query
\* returned values), the instance allocate_workload selects is not one whose
\* query returned no values, whatever its position among the candidates.
C27_UndefinedNeverSelected ==
    (/\ Served /\ allocOutcome = "returned" /\ allocResult.status = "success"
     /\ \E i \in Retrieved : instances[i].values # <<>>)
       => instances[allocResult.allocated_instance].values # <<>>

\* C28: two requests that see the same instance state obtain the same result even
\* when their workloads differ (stated for consecutive requests, the instance state
\* being fixed), and max_energy_consumption excludes no instance: a request served
\* while the metrics of at least one instance were retrieved succeeds.
C28_ResultIgnoresRequest ==
    /\ [][(request' # request /\ Served /\ Served')
             => (allocResult' = allocResult /\ allocOutcome' = allocOutcome)]_vars
    /\ []((Served /\ Retrieved # {}) => allocResult.status = "success")

\* C28 witness: a request with max_energy_consumption 12 was allocated an instance
\* whose energy_consumption is 20
C28_Witness ==
    /\ Served
    /\ request.max_energy_consumption = <<F(12)>>
    /\ allocResult.status = "success"
    /\ allocResult.energy_consumption = F(20)


----------------------------------------------------------------------------
\* Agreement of the carbon models (SpecEst)

\* C29: for every energy value and every region, known or unknown, the estimate of
\* the collector and the estimate of the monitor are the same value, and the
\* carbon_intensity get_sustainability_metrics reports for the region is the factor
\* both use: the carbon value of every sample, whichever estimator produced it, is
\* what each of the two estimators returns for the sample's energy and region, and
\* is energy / 1000 times the reported carbon_intensity.
C29_CarbonModelsAgree ==
    \A i \in SampleIdx :
        LET e == samples[i].energy_consumption
            r == samples[i].region
        IN  /\ samples[i].carbon_footprint = estimate_carbon_footprint(e, r)
            /\ samples[i].carbon_footprint = monitor_estimate_carbon_footprint(e, r)
            /\ samples[i].carbon_footprint
                   = FMul(FDiv(e, F(1000)),
                          F(get_sustainability_metrics(r).carbon_intensity))
            /\ r \notin {"us-east-1", "eu-west-1", "ap-southeast-1"} =>
                   get_sustainability_metrics(r).carbon_intensity = 500

\* C29 witness: the collector estimated a sample of a region outside the tables and
\* the monitor one of a region inside them
C29_Witness ==
    /\ Len(samples) = 2
    /\ IsCollector(1) /\ IsMonitor(2)
    /\ samples[1].region = "sa-east-1" /\ samples[2].region = "eu-west-1"
    /\ samples[1].energy_consumption = F(14)
    /\ samples[1].carbon_footprint = F(7)
    /\ samples[2].energy_consumption = F(200)
    /\ samples[2].carbon_footprint = F(40)


----------------------------------------------------------------------------
\* Request tracking (SpecTrack)

\* the calls of the endpoint the wrapper has finished, by how the function ended
Finished(ep, outcomes) ==
    { c \in 1 .. Len(tracked) :
        tracked[c].pc = "done" /\ tracked[c].endpoint = ep /\ tracked[c].func \in outcomes }

\* C30: every call of a wrapped function increments REQUESTS_TOTAL of the endpoint
\* exactly once, with status success if the function returned and with status error
\* if it raised, RESPONSE_TIME of the endpoint receives one observation per call,
\* and the caller receives the exception the function raised.
C30_OneCountPerCall ==
    /\ \A ep \in TrackedEndpoints :
          /\ REQUESTS_TOTAL[ep]["success"] = Cardinality(Finished(ep, {"returned"}))
          /\ REQUESTS_TOTAL[ep]["error"]
                 = Cardinality(Finished(ep, FuncOutcomes \ {"returned"}))
          /\ RESPONSE_TIME[ep] = Cardinality(Finished(ep, FuncOutcomes))
    /\ \A c \in 1 .. Len(tracked) :
          tracked[c].pc = "done" => tracked[c].caller = tracked[c].func


====
